---------------------------- MODULE Spec2Model ----------------------------
(***************************************************************************)
(* Model of the fashion-metadata repository: the vocabulary manager, the   *)
(* faceted metadata generator, the confidence scorer, the review screen    *)
(* of the Streamlit application (generate / save / approve) and the bulk   *)
(* CSV processor.                                                           *)
(*                                                                         *)
(* Python strings are sequences of one-character strings, so that lower(), *)
(* title(), strip(), split() and the substring test are computed and not   *)
(* assumed.  Python None is the one-element sequence None, which is no     *)
(* string of the program.  A dict is a sequence of <<key, value>> pairs in *)
(* insertion order.                                                        *)
(***************************************************************************)
EXTENDS Integers, Sequences, FiniteSets, TLC

\* ------------------------------------------------------------------------
\* Python values
\* ------------------------------------------------------------------------

None == <<"None">>

Truthy(v) == v # None /\ v # <<>>

UpperCase == <<"A","B","C","D","E","F","G","H","I","J","K","L","M",
               "N","O","P","Q","R","S","T","U","V","W","X","Y","Z">>

LowerCase == <<"a","b","c","d","e","f","g","h","i","j","k","l","m",
               "n","o","p","q","r","s","t","u","v","w","x","y","z">>

IsUpper(c) == \E i \in 1..26 : UpperCase[i] = c

IsLower(c) == \E i \in 1..26 : LowerCase[i] = c

IsCased(c) == IsUpper(c) \/ IsLower(c)

IsSpace(c) == c = " "

char_lower(c) == IF IsUpper(c) THEN LowerCase[CHOOSE i \in 1..26 : UpperCase[i] = c] ELSE c

char_upper(c) == IF IsLower(c) THEN UpperCase[CHOOSE i \in 1..26 : LowerCase[i] = c] ELSE c

\* s.lower()
str_lower(s) == [i \in 1..Len(s) |-> char_lower(s[i])]

\* s.title(): a cased character is upper-cased when the character before it
\* is not cased, and lower-cased otherwise
str_title(s) ==
    [i \in 1..Len(s) |->
        IF i > 1 /\ IsCased(s[i-1]) THEN char_lower(s[i]) ELSE char_upper(s[i])]

\* sub in s
str_in(sub, s) ==
    \E i \in 1..(Len(s) - Len(sub) + 1) : SubSeq(s, i, i + Len(sub) - 1) = sub

RECURSIVE str_lstrip(_)
str_lstrip(s) == IF s # <<>> /\ IsSpace(Head(s)) THEN str_lstrip(Tail(s)) ELSE s

RECURSIVE str_rstrip(_)
str_rstrip(s) ==
    IF s # <<>> /\ IsSpace(s[Len(s)]) THEN str_rstrip(SubSeq(s, 1, Len(s) - 1)) ELSE s

\* s.strip()
str_strip(s) == str_rstrip(str_lstrip(s))

\* s.split(): the maximal runs of non-whitespace characters
RECURSIVE str_split_from(_, _, _)
str_split_from(s, word, acc) ==
    IF s = <<>> THEN (IF word = <<>> THEN acc ELSE Append(acc, word))
    ELSE IF IsSpace(Head(s))
         THEN str_split_from(Tail(s), <<>>, IF word = <<>> THEN acc ELSE Append(acc, word))
         ELSE str_split_from(Tail(s), Append(word, Head(s)), acc)

str_split(s) == str_split_from(s, <<>>, <<>>)

\* ' '.join(words)
RECURSIVE str_join(_)
str_join(words) ==
    IF words = <<>> THEN <<>>
    ELSE IF Len(words) = 1 THEN words[1]
    ELSE words[1] \o <<" ">> \o str_join(Tail(words))

\* str(value)
str_of(value) == IF value = None THEN <<"N","o","n","e">> ELSE value

\* s.replace(old, new), old not empty
RECURSIVE str_replace(_, _, _)
str_replace(s, old, new) ==
    IF Len(s) < Len(old) THEN s
    ELSE IF SubSeq(s, 1, Len(old)) = old
    THEN new \o str_replace(SubSeq(s, Len(old) + 1, Len(s)), old, new)
    ELSE <<Head(s)>> \o str_replace(Tail(s), old, new)

\* s.capitalize()
str_capitalize(s) ==
    [i \in 1..Len(s) |-> IF i = 1 THEN char_upper(s[i]) ELSE char_lower(s[i])]

\* x in list
InList(x, list) == \E i \in 1..Len(list) : list[i] = x

\* any(word in name for word in words)
AnyIn(words, name) == \E i \in 1..Len(words) : str_in(words[i], name)

\* ------------------------------------------------------------------------
\* dicts: sequences of <<key, value>> pairs in insertion order
\* ------------------------------------------------------------------------

DictHas(d, k) == \E i \in 1..Len(d) : d[i][1] = k

DictGet(d, k, default) ==
    IF DictHas(d, k) THEN d[CHOOSE i \in 1..Len(d) : d[i][1] = k][2] ELSE default

DictKeys(d) == [i \in 1..Len(d) |-> d[i][1]]

\* d[k] = v
DictSet(d, k, v) ==
    IF DictHas(d, k) THEN [i \in 1..Len(d) |-> IF d[i][1] = k THEN <<k, v>> ELSE d[i]]
    ELSE Append(d, <<k, v>>)

\* ------------------------------------------------------------------------
\* difflib.get_close_matches, as the vocabulary manager calls it
\* ------------------------------------------------------------------------

\* the printable ASCII characters, code 32 first (the grave accent, code 96,
\* is spelled out)
Ascii == <<" ", "!", "\"", "#", "$", "%", "&", "'", "(", ")", "*", "+", ",", "-", ".", "/",
           "0", "1", "2", "3", "4", "5", "6", "7", "8", "9", ":", ";", "<", "=", ">", "?",
           "@", "A", "B", "C", "D", "E", "F", "G", "H", "I", "J", "K", "L", "M", "N", "O",
           "P", "Q", "R", "S", "T", "U", "V", "W", "X", "Y", "Z", "[", "\\", "]", "^", "_",
           "grave", "a", "b", "c", "d", "e", "f", "g", "h", "i", "j", "k", "l", "m", "n", "o",
           "p", "q", "r", "s", "t", "u", "v", "w", "x", "y", "z", "{", "|", "}", "~">>

\* ord(c)
Ord(c) == 31 + (CHOOSE i \in 1..Len(Ascii) : Ascii[i] = c)

\* s < t for two strings
RECURSIVE str_less(_, _)
str_less(s, t) ==
    IF t = <<>> THEN FALSE
    ELSE IF s = <<>> THEN TRUE
    ELSE IF Head(s) = Head(t) THEN str_less(Tail(s), Tail(t))
    ELSE Ord(Head(s)) < Ord(Head(t))

\* length of the longest common run of a from i and b from j
RECURSIVE CommonRun(_, _, _, _)
CommonRun(a, b, i, j) ==
    IF i > Len(a) \/ j > Len(b) \/ a[i] # b[j] THEN 0
    ELSE 1 + CommonRun(a, b, i + 1, j + 1)

\* SequenceMatcher.find_longest_match without junk: the longest block, of
\* those the one starting earliest in a, of those the one earliest in b
find_longest_match(a, b) ==
    LET blocks == {<<i, j, CommonRun(a, b, i, j)>> : i \in 1..Len(a), j \in 1..Len(b)}
        best   == CHOOSE m \in blocks :
                    \A o \in blocks :
                       \/ m[3] > o[3]
                       \/ m[3] = o[3] /\ m[1] < o[1]
                       \/ m[3] = o[3] /\ m[1] = o[1] /\ m[2] <= o[2]
    IN  best

\* the sum of the sizes of SequenceMatcher.get_matching_blocks
RECURSIVE matching_size(_, _)
matching_size(a, b) ==
    IF a = <<>> \/ b = <<>> THEN 0
    ELSE LET m == find_longest_match(a, b)
         IN  IF m[3] = 0 THEN 0
             ELSE m[3]
                  + matching_size(SubSeq(a, 1, m[1] - 1), SubSeq(b, 1, m[2] - 1))
                  + matching_size(SubSeq(a, m[1] + m[3], Len(a)), SubSeq(b, m[2] + m[3], Len(b)))

\* SequenceMatcher.ratio() >= cutoff, the cutoff in hundredths;
\* ratio is 2*M/T, and 1.0 for two empty strings
ratio_at_least(a, b, cutoff) ==
    IF Len(a) + Len(b) = 0 THEN 100 >= cutoff
    ELSE 200 * matching_size(a, b) >= cutoff * (Len(a) + Len(b))

\* (ratio(x), x) > (ratio(y), y), the order heapq.nlargest sorts by
ScoredAbove(word, x, y) ==
    LET mx == matching_size(x, word) * (Len(y) + Len(word))
        my == matching_size(y, word) * (Len(x) + Len(word))
    IN  mx > my \/ (mx = my /\ str_less(y, x))

\* the n best of the possibilities at the given positions, best first; a
\* possibility the list repeats is scored and returned once per occurrence
RECURSIVE nlargest(_, _, _, _)
nlargest(n, word, possibilities, positions) ==
    IF n = 0 \/ positions = {} THEN <<>>
    ELSE LET top == CHOOSE i \in positions :
                       \A j \in positions \ {i} :
                          \/ ScoredAbove(word, possibilities[i], possibilities[j])
                          \/ possibilities[i] = possibilities[j] /\ i < j
         IN  <<possibilities[top]>> \o nlargest(n - 1, word, possibilities, positions \ {top})

\* one match more than asked for
get_close_matchesUncapped(word, possibilities, n, cutoff) ==
    nlargest(n + 1, word, possibilities,
             {k \in 1..Len(possibilities) : ratio_at_least(possibilities[k], word, cutoff)})

get_close_matches(word, possibilities, n, cutoff) ==
    nlargest(n, word, possibilities,
             {k \in 1..Len(possibilities) : ratio_at_least(possibilities[k], word, cutoff)})

\* ------------------------------------------------------------------------
\* dicts with literal keys (a JSON section name, a CSV column, a field of a
\* record) are functions; d.get(k, default)
\* ------------------------------------------------------------------------

EmptyDict == [k \in {} |-> <<>>]

Get(d, k, default) == IF k \in DOMAIN d THEN d[k] ELSE default

\* d.update(changes) and d[k] = v for the keys of changes
Update(d, changes) == changes @@ d

\* ------------------------------------------------------------------------
\* models/vocabulary_manager.py
\* ------------------------------------------------------------------------

_get_default_vocabulary ==
    [ gender |-> <<<<"M","e","n">>, <<"W","o","m","e","n">>, <<"U","n","i","s","e","x">>>>,
      item_type |-> <<<<"A","p","p","a","r","e","l">>, <<"F","o","o","t","w","e","a","r">>>>,
      size |-> <<<<"X","S">>, <<"S">>, <<"M">>, <<"L">>, <<"X","L">>, <<"X","X","L">>>>,
      categories |->
        <<<<<<"A","p","p","a","r","e","l">>, <<<<"T","o","p","w","e","a","r">>, <<"B","o","t","t","o","m","w","e","a","r">>, <<"D","r","e","s","s">>, <<"O","u","t","e","r","w","e","a","r">>, <<"I","n","n","e","r","w","e","a","r">>>>>>,
          <<<<"F","o","o","t","w","e","a","r">>, <<<<"S","h","o","e","s">>, <<"S","a","n","d","a","l","s">>, <<"F","l","i","p"," ","F","l","o","p","s">>, <<"B","o","o","t","s">>, <<"S","o","c","k","s">>>>>>>>,
      product_types |->
        <<<<<<"A","p","p","a","r","e","l">>,
             <<<<<<"T","o","p","w","e","a","r">>, <<<<"T","o","p","s">>, <<"T","s","h","i","r","t","s">>, <<"S","h","i","r","t","s">>, <<"B","l","o","u","s","e","s">>>>>>,
               <<<<"B","o","t","t","o","m","w","e","a","r">>, <<<<"J","e","a","n","s">>, <<"P","a","n","t","s">>, <<"S","h","o","r","t","s">>, <<"S","k","i","r","t","s">>>>>>>>>>,
          <<<<"F","o","o","t","w","e","a","r">>,
             <<<<<<"S","h","o","e","s">>, <<<<"C","a","s","u","a","l"," ","S","h","o","e","s">>, <<"F","o","r","m","a","l"," ","S","h","o","e","s">>, <<"S","p","o","r","t","s"," ","S","h","o","e","s">>>>>>>>>>>>,
      colors |-> <<<<"r","e","d">>, <<"p","i","n","k">>, <<"b","l","a","c","k">>, <<"w","h","i","t","e">>, <<"b","r","o","w","n">>, <<"g","r","e","e","n">>, <<"b","l","u","e">>, <<"g","o","l","d">>,
                     <<"p","u","r","p","l","e">>, <<"o","r","a","n","g","e">>, <<"g","r","e","y">>, <<"m","a","r","o","o","n">>, <<"y","e","l","l","o","w">>, <<"n","a","v","y"," ","b","l","u","e">>, <<"k","h","a","k","i">>,
                     <<"m","a","g","e","n","t","a">>, <<"m","u","s","h","r","o","o","m"," ","b","r","o","w","n">>, <<"s","i","l","v","e","r">>, <<"o","l","i","v","e">>, <<"b","e","i","g","e">>, <<"n","u","d","e">>,
                     <<"l","a","v","e","n","d","e","r">>, <<"t","a","n">>>>,
      materials |-> <<<<"c","o","t","t","o","n">>, <<"d","e","n","i","m">>, <<"l","e","a","t","h","e","r">>, <<"s","i","l","k">>, <<"p","o","l","y","e","s","t","e","r">>, <<"w","o","o","l">>, <<"l","i","n","e","n">>,
                        <<"r","a","y","o","n">>, <<"s","p","a","n","d","e","x">>, <<"n","y","l","o","n">>, <<"c","a","n","v","a","s">>>>,
      patterns |-> <<<<"S","o","l","i","d">>, <<"S","t","r","i","p","e","d">>, <<"F","l","o","r","a","l">>, <<"G","e","o","m","e","t","r","i","c">>, <<"A","n","i","m","a","l"," ","P","r","i","n","t">>, <<"P","a","i","s","l","e","y">>,
                       <<"P","o","l","k","a"," ","D","o","t">>, <<"C","h","e","c","k">>, <<"S","t","r","i","p","e","s">>, <<"T","a","r","t","a","n">>, <<"H","o","u","n","d","s","t","o","o","t","h">>, <<"C","h","e","c","k","e","r","e","d">>,
                       <<"G","i","n","g","h","a","m">>, <<"T","a","r","t","a","n">>, <<"H","o","u","n","d","s","t","o","o","t","h">>, <<"C","h","e","c","k","e","r","e","d">>, <<"G","i","n","g","h","a","m">>, <<"T","a","r","t","a","n">>,
                       <<"H","o","u","n","d","s","t","o","o","t","h">>, <<"C","h","e","c","k","e","r","e","d">>, <<"G","i","n","g","h","a","m">>>>,
      usages |-> <<<<"C","a","s","u","a","l">>, <<"F","o","r","m","a","l">>, <<"S","p","o","r","t","y">>>>,
      brands |-> <<<<"A","d","i","d","a","s">>, <<"A","e","r","o","p","o","s","t","a","l","e">>, <<"A","l","l","e","n">>, <<"A","l","l","e","n"," ","S","o","l","l","y">>, <<"A","m","e","r","i","c","a","n"," ","E","a","g","l","e">>,
                     <<"A","n","t">>, <<"A","r","r","o","w">>, <<"A","S","I","C","S">>, <<"A","v","e","n","g","e","r","s">>, <<"B","a","n","a","n","a"," ","R","e","p","u","b","l","i","c">>, <<"B","a","s","i","c","s">>,
                     <<"B","a","t","a">>, <<"B","a","t","m","a","n">>, <<"B","e","n">>, <<"B","e","n","e","t","t","o","n">>, <<"B","t","w","i","n">>, <<"B","u","c","k","a","r","o","o">>,
                     <<"C","a","l","v","i","n"," ","K","l","e","i","n">>, <<"C","a","r","l","t","o","n">>, <<"C","a","t","w","a","l","k">>, <<"C","h","h","o","t","a"," ","B","h","e","e","m">>, <<"C","l","a","r","k","s">>,
                     <<"C","o","b","b","l","e","r","z">>, <<"C","o","n","v","e","r","s","e">>, <<"C","o","o","l","e","r","s">>, <<"C","r","o","c","s">>, <<"D","C">>, <<"D","e","c","a","t","h","l","o","n">>,
                     <<"D","i","s","n","e","y">>, <<"D","o">>, <<"D","o","o","d","l","e">>, <<"E","n","r","o","u","t","e">>, <<"E","s","t","d",".">>, <<"F","a","b","i","n","d","i","a">>, <<"F","I","L","A">>,
                     <<"F","i","l","a","c">>, <<"F","l","y","i","n","g"," ","M","a","c","h","i","n","e">>, <<"F","o","r","c","e">>, <<"F","o","r","e","v","e","r"," ","2","1">>, <<"F","o","r","t","u","n","e">>, <<"F","r","a","n","c","o">>,
                     <<"G","a","n","u","c","h","i">>, <<"G","a","p">>, <<"G","A","S">>, <<"G","i","n","i"," ","&"," ","J","o","n","y">>, <<"G","i","n","y">>, <<"G","l","i","d","e","r","s">>, <<"G","l","o","b","a","l","i","t","e">>,
                     <<"G","r","e","n","d","h","a">>, <<"G","u","e","s","s">>, <<"H","&","M">>, <<"H","a","n","n","a","h">>, <<"H","o","l","l","i","s","t","e","r">>, <<"I","D">>, <<"I","n","c">>,
                     <<"J","o","c","k","e","y">>, <<"K","a","p","p","a">>, <<"L","a","c","o","s","t","e">>, <<"L","e","v","i","'","s">>, <<"M","a","r","k","s"," ","&"," ","S","p","e","n","c","e","r">>, <<"M","u","f","t","i">>,
                     <<"N","i","k","e">>, <<"O","l","d"," ","N","a","v","y">>, <<"P","e","p","e"," ","J","e","a","n","s">>, <<"P","e","t","e","r"," ","E","n","g","l","a","n","d">>, <<"P","r","o","v","o","g","u","e">>, <<"P","u","m","a">>,
                     <<"R","e","d"," ","T","a","p","e">>, <<"R","e","e","b","o","k">>, <<"S","k","e","c","h","e","r","s">>, <<"S","p","a","r","x">>, <<"T","o","m","m","y"," ","H","i","l","f","i","g","e","r">>, <<"U","C","B">>,
                     <<"U","n","d","e","r"," ","A","r","m","o","u","r">>, <<"U","n","i","q","l","o">>, <<"U","S"," ","P","o","l","o"," ","A","s","s","n">>, <<"V","a","n"," ","H","e","u","s","e","n">>, <<"V","a","n","s">>,
                     <<"V","e","r","s","a","c","e">>, <<"W","o","o","d","l","a","n","d">>, <<"W","r","a","n","g","l","e","r">>, <<"Y","o","n","e","x">>, <<"Z","a","r","a">>>> ]

\* the state of vocabulary.json: no such file
NoFile == [exists |-> FALSE]

\* a vocabulary.json with sparse branches: an item type without categories,
\* categories without product types, styles without sub-styles
SparseVocabularyFile ==
    [ exists |-> TRUE,
      document |->
        [ gender |-> <<<<"M","e","n">>, <<"W","o","m","e","n">>, <<"U","n","i","s","e","x">>>>,
          item_type |-> <<<<"A","p","p","a","r","e","l">>, <<"F","o","o","t","w","e","a","r">>>>,
          size |-> <<<<"S">>, <<"M">>>>,
          categories |->
            <<<<<<"A","p","p","a","r","e","l">>, <<<<"T","o","p","w","e","a","r">>, <<"D","r","e","s","s">>>>>>,
              <<<<"F","o","o","t","w","e","a","r">>, <<>>>>>>,
          product_types |->
            <<<<<<"A","p","p","a","r","e","l">>, <<<<<<"T","o","p","w","e","a","r">>, <<<<"T","s","h","i","r","t","s">>, <<"S","h","i","r","t","s">>>>>>>>>>>>,
          colors |-> <<<<"R","e","d">>, <<"N","a","v","y"," ","B","l","u","e">>, <<"M","a","r","o","o","n">>>>,
          materials |-> <<<<"C","o","t","t","o","n">>, <<"D","e","n","i","m">>>>,
          patterns |-> <<<<"S","o","l","i","d">>>>,
          usages |-> <<<<"C","a","s","u","a","l">>, <<"F","o","r","m","a","l">>, <<"P","a","r","t","y">>>>,
          brands |-> <<<<"Z","a","r","a">>, <<"N","i","k","e">>>>,
          style_hierarchy |->
            <<<<<<"C","a","s","u","a","l">>, <<<<<<"E","v","e","r","y","d","a","y">>, <<<<"B","a","s","i","c">>, <<"C","o","m","f","o","r","t">>>>>>>>>>,
              <<<<"F","o","r","m","a","l">>, <<>>>>,
              <<<<"P","a","r","t","y">>, <<<<<<"E","v","e","n","i","n","g">>, <<>>>>>>>>>> ] ]

\* a vocabulary.json whose every branch is populated, Footwear first
FullVocabularyFile ==
    [ exists |-> TRUE,
      document |->
        [ gender |-> <<<<"M","e","n">>, <<"W","o","m","e","n">>, <<"U","n","i","s","e","x">>>>,
          item_type |-> <<<<"F","o","o","t","w","e","a","r">>, <<"A","p","p","a","r","e","l">>>>,
          size |-> <<<<"S">>, <<"M">>>>,
          categories |->
            <<<<<<"F","o","o","t","w","e","a","r">>, <<<<"S","a","n","d","a","l">>, <<"S","h","o","e","s">>>>>>,
              <<<<"A","p","p","a","r","e","l">>, <<<<"B","o","t","t","o","m","w","e","a","r">>, <<"T","o","p","w","e","a","r">>, <<"D","r","e","s","s">>>>>>>>,
          product_types |->
            <<<<<<"F","o","o","t","w","e","a","r">>, <<<<<<"S","a","n","d","a","l">>, <<<<"S","a","n","d","a","l","s">>>>>>,
                             <<<<"S","h","o","e","s">>, <<<<"C","a","s","u","a","l"," ","S","h","o","e","s">>, <<"S","p","o","r","t","s"," ","S","h","o","e","s">>>>>>>>>>,
              <<<<"A","p","p","a","r","e","l">>, <<<<<<"B","o","t","t","o","m","w","e","a","r">>, <<<<"J","e","a","n","s">>, <<"S","h","o","r","t","s">>>>>>,
                            <<<<"T","o","p","w","e","a","r">>, <<<<"S","h","i","r","t","s">>, <<"T","s","h","i","r","t","s">>>>>>,
                            <<<<"D","r","e","s","s">>, <<<<"D","r","e","s","s","e","s">>>>>>>>>>>>,
          colors |-> <<<<"R","e","d">>, <<"B","l","u","e">>>>,
          materials |-> <<<<"C","o","t","t","o","n">>, <<"L","e","a","t","h","e","r">>>>,
          patterns |-> <<<<"S","o","l","i","d">>, <<"S","t","r","i","p","e","d">>>>,
          usages |-> <<<<"C","a","s","u","a","l">>, <<"S","p","o","r","t","y">>>>,
          brands |-> <<<<"Z","a","r","a">>, <<"N","i","k","e">>>>,
          style_hierarchy |->
            <<<<<<"S","p","o","r","t","y">>, <<<<<<"A","t","h","l","e","t","i","c">>, <<<<"P","e","r","f","o","r","m","a","n","c","e">>>>>>>>>>,
              <<<<"C","a","s","u","a","l">>, <<<<<<"E","v","e","r","y","d","a","y">>, <<<<"B","a","s","i","c">>>>>>>>>>>> ] ]

VocabularyFiles == {NoFile, SparseVocabularyFile, FullVocabularyFile}

\* a vocabulary.json that is present and is no JSON document
MalformedVocabularyFile == [exists |-> TRUE, text |-> <<"{","\"","g","e","n","d","e","r","\"",":"," ","[">>]

\* json.load: the document of the file, or the JSONDecodeError it raises
json_load(file) ==
    IF "document" \in DOMAIN file THEN file.document
    ELSE [raised |-> <<"J","S","O","N","D","e","c","o","d","e","E","r","r","o","r">>]

\* VocabularyManager._load_vocabulary; an exception of json.load is not
\* caught and leaves the function as [raised |-> ...]
VocabularyManager_load_vocabulary(file) ==
    IF file.exists THEN json_load(file) ELSE _get_default_vocabulary

\* VocabularyManager.__init__: the instance, or the exception of
\* _load_vocabulary
VocabularyManager_init(file) ==
    LET loaded == VocabularyManager_load_vocabulary(file)
    IN  IF "raised" \in DOMAIN loaded THEN loaded
        ELSE [ vocabulary |-> loaded, custom_terms |-> <<>> ]

\* the whitespace collapsed and the case left as typed
_normalizeUntitled(value) == str_join(str_split(value))

\* ' '.join(value.split()).title()
_normalize(value) == str_title(str_join(str_split(value)))

\* the context argument is a dict with the optional keys item_type and
\* category; None and {} are both EmptyDict, the code tests only its truth
_get_vocabulary_listWithCustomTerms(self, field, context) ==
    ( IF field \in {"gender", "item_type", "size"}
      THEN Get(self.vocabulary, field, <<>>)
      ELSE IF field = "color" THEN Get(self.vocabulary, "colors", <<>>)
      ELSE IF field = "material" THEN Get(self.vocabulary, "materials", <<>>)
      ELSE IF field = "pattern" THEN Get(self.vocabulary, "patterns", <<>>)
      ELSE IF field = "usage" THEN Get(self.vocabulary, "usages", <<>>)
      ELSE IF field = "brand" THEN Get(self.vocabulary, "brands", <<>>)
      ELSE <<>> )
    \o DictGet(self.custom_terms, field, <<>>)

_get_vocabulary_list(self, field, context) ==
    IF field \in {"gender", "item_type", "size"}
    THEN Get(self.vocabulary, field, <<>>)
    ELSE IF field = "category" /\ DOMAIN context # {} /\ Truthy(Get(context, "item_type", None))
    THEN DictGet(Get(self.vocabulary, "categories", <<>>), context.item_type, <<>>)
    ELSE IF field = "product_type" /\ DOMAIN context # {}
            /\ Truthy(Get(context, "item_type", None)) /\ Truthy(Get(context, "category", None))
    THEN DictGet(DictGet(Get(self.vocabulary, "product_types", <<>>), context.item_type, <<>>),
                 context.category, <<>>)
    ELSE IF field = "color" THEN Get(self.vocabulary, "colors", <<>>)
    ELSE IF field = "material" THEN Get(self.vocabulary, "materials", <<>>)
    ELSE IF field = "pattern" THEN Get(self.vocabulary, "patterns", <<>>)
    ELSE IF field = "usage" THEN Get(self.vocabulary, "usages", <<>>)
    ELSE IF field = "brand" THEN Get(self.vocabulary, "brands", <<>>)
    ELSE <<>>

\* a value found in the list is returned as typed and normalized, not as
\* the list spells it
validateReturningInput(self, field, value, context) ==
    LET stripped == str_strip(str_of(value))
    IN  IF stripped = <<>> THEN <<FALSE, None, None>>
        ELSE LET normalized == _normalize(stripped)
                 vocab_list == _get_vocabulary_list(self, field, context)
             IN  IF vocab_list = <<>> THEN <<TRUE, normalized, None>>
                 ELSE IF \E i \in 1..Len(vocab_list) :
                            str_lower(vocab_list[i]) = str_lower(normalized)
                 THEN <<TRUE, normalized, None>>
                 ELSE LET suggestions == get_close_matches(normalized, vocab_list, 3, 60)
                      IN  IF suggestions # <<>> THEN <<FALSE, normalized, suggestions>>
                          ELSE <<FALSE, normalized, None>>

\* returns <<is_valid, normalized, suggestions>>
validate(self, field, value, context) ==
    LET stripped == str_strip(str_of(value))
    IN  IF stripped = <<>> THEN <<FALSE, None, None>>
        ELSE LET normalized == _normalize(stripped)
                 vocab_list == _get_vocabulary_list(self, field, context)
                 hits == {i \in 1..Len(vocab_list) :
                             str_lower(vocab_list[i]) = str_lower(normalized)}
             IN  IF vocab_list = <<>> THEN <<TRUE, normalized, None>>
                 ELSE IF hits # {}
                 THEN <<TRUE, vocab_list[CHOOSE i \in hits : \A j \in hits : i <= j], None>>
                 ELSE LET suggestions == get_close_matches(normalized, vocab_list, 3, 60)
                      IN  IF suggestions # <<>> THEN <<FALSE, normalized, suggestions>>
                          ELSE <<FALSE, normalized, None>>

\* the category is looked at only when a product type is given
validate_hierarchyLenient(self, item_type, category, product_type) ==
    LET valid_categories ==
            DictGet(Get(self.vocabulary, "categories", <<>>), item_type, <<>>)
        valid_product_types ==
            DictGet(DictGet(Get(self.vocabulary, "product_types", <<>>), item_type, <<>>),
                    category, <<>>)
    IN  IF ~InList(item_type, Get(self.vocabulary, "item_type", <<>>))
        THEN <<FALSE, <<"I","n","v","a","l","i","d"," ","i","t","e","m","_","t","y","p","e",":"," ">> \o item_type>>
        ELSE IF Truthy(product_type) /\ ~InList(category, valid_categories)
        THEN <<FALSE, <<"C","a","t","e","g","o","r","y"," ","'">> \o category \o <<"'"," ","n","o","t"," ","v","a","l","i","d"," ","f","o","r"," ","i","t","e","m","_","t","y","p","e"," ","'">>
                      \o item_type \o <<"'">>>>
        ELSE IF Truthy(product_type) /\ ~InList(product_type, valid_product_types)
        THEN <<FALSE, <<"P","r","o","d","u","c","t"," ","t","y","p","e"," ","'">> \o product_type \o <<"'"," ","n","o","t"," ","v","a","l","i","d"," ","f","o","r"," ","c","a","t","e","g","o","r","y"," ","'">>
                      \o category \o <<"'">>>>
        ELSE <<TRUE, <<>>>>

\* returns <<is_valid, error>>
validate_hierarchy(self, item_type, category, product_type) ==
    LET valid_categories ==
            DictGet(Get(self.vocabulary, "categories", <<>>), item_type, <<>>)
        valid_product_types ==
            DictGet(DictGet(Get(self.vocabulary, "product_types", <<>>), item_type, <<>>),
                    category, <<>>)
    IN  IF ~InList(item_type, Get(self.vocabulary, "item_type", <<>>))
        THEN <<FALSE, <<"I","n","v","a","l","i","d"," ","i","t","e","m","_","t","y","p","e",":"," ">> \o item_type>>
        ELSE IF ~InList(category, valid_categories)
        THEN <<FALSE, <<"C","a","t","e","g","o","r","y"," ","'">> \o category \o <<"'"," ","n","o","t"," ","v","a","l","i","d"," ","f","o","r"," ","i","t","e","m","_","t","y","p","e"," ","'">>
                      \o item_type \o <<"'">>>>
        ELSE IF Truthy(product_type) /\ ~InList(product_type, valid_product_types)
        THEN <<FALSE, <<"P","r","o","d","u","c","t"," ","t","y","p","e"," ","'">> \o product_type \o <<"'"," ","n","o","t"," ","v","a","l","i","d"," ","f","o","r"," ","c","a","t","e","g","o","r","y"," ","'">>
                      \o category \o <<"'">>>>
        ELSE <<TRUE, <<>>>>

\* the term is looked for and appended as typed
add_custom_termAsTyped(self, field, value) ==
    LET terms == DictGet(self.custom_terms, field, <<>>)
    IN  [self EXCEPT !.custom_terms =
            DictSet(@, field, IF InList(value, terms) THEN terms ELSE Append(terms, value))]

\* the instance after add_custom_term(field, value), which returns True
add_custom_term(self, field, value) ==
    LET normalized == _normalize(value)
        terms == DictGet(self.custom_terms, field, <<>>)
    IN  [self EXCEPT !.custom_terms =
            DictSet(@, field, IF InList(normalized, terms) THEN terms
                              ELSE Append(terms, normalized))]

get_custom_terms(self, field) == DictGet(self.custom_terms, field, <<>>)

\* two sorted lists without repetitions merged into one
RECURSIVE Merge(_, _)
Merge(a, b) ==
    IF a = <<>> THEN b
    ELSE IF b = <<>> THEN a
    ELSE IF Head(a) = Head(b) THEN Merge(a, Tail(b))
    ELSE IF str_less(Head(a), Head(b)) THEN <<Head(a)>> \o Merge(Tail(a), b)
    ELSE <<Head(b)>> \o Merge(a, Tail(b))

\* sorted(set(list)): the distinct strings of the list in ascending order
RECURSIVE SortedSet(_)
SortedSet(list) ==
    IF Len(list) <= 1 THEN list
    ELSE LET half == Len(list) \div 2
         IN  Merge(SortedSet(SubSeq(list, 1, half)),
                   SortedSet(SubSeq(list, half + 1, Len(list))))

get_valid_options(self, field, context) ==
    SortedSet(_get_vocabulary_list(self, field, context) \o get_custom_terms(self, field))

\* ------------------------------------------------------------------------
\* models/faceted_metadata.py
\*
\* image_attributes is a dict from an attribute axis ("category", "color",
\* "material", "pattern", "style") to a ranked list of candidates
\* [name, confidence], the confidence in hundredths; product_info is a dict
\* with the keys brand, gender, size; csv_data is a CSV row, a dict from
\* column names to strings.  None and {} are both EmptyDict wherever the
\* code only tests the truth of the argument.
\* ------------------------------------------------------------------------

\* FacetedMetadataGenerator._load_vocabulary
FacetedMetadataGenerator_load_vocabulary(file) ==
    IF file.exists THEN file.document
    ELSE [ item_type |-> <<<<"A","p","p","a","r","e","l">>, <<"F","o","o","t","w","e","a","r">>>>,
           categories |->
             <<<<<<"A","p","p","a","r","e","l">>, <<<<"T","o","p","w","e","a","r">>, <<"B","o","t","t","o","m","w","e","a","r">>, <<"D","r","e","s","s">>>>>>,
               <<<<"F","o","o","t","w","e","a","r">>, <<<<"S","h","o","e","s">>, <<"S","a","n","d","a","l","s">>>>>>>>,
           product_types |->
             <<<<<<"A","p","p","a","r","e","l">>, <<<<<<"T","o","p","w","e","a","r">>, <<<<"T","o","p","s">>, <<"T","s","h","i","r","t","s">>>>>>,
                           <<<<"B","o","t","t","o","m","w","e","a","r">>, <<<<"J","e","a","n","s">>, <<"P","a","n","t","s">>>>>>>>>>>> ]

\* the inner loop of __init__: one entry per category of the item type
RECURSIVE CategoryEntries(_, _, _)
CategoryEntries(categories, product_types, entries) ==
    IF categories = <<>> THEN entries
    ELSE CategoryEntries(Tail(categories), product_types,
                         DictSet(entries, Head(categories),
                                 DictGet(product_types, Head(categories), <<>>)))

\* the outer loop of __init__: one entry per item type
RECURSIVE ItemTypeEntries(_, _, _)
ItemTypeEntries(item_types, vocabulary, entries) ==
    IF item_types = <<>> THEN entries
    ELSE LET item_type == Head(item_types)
             categories == Get(vocabulary, "categories", <<>>)
             product_types == Get(vocabulary, "product_types", <<>>)
         IN  ItemTypeEntries(Tail(item_types), vocabulary,
                 DictSet(entries, item_type,
                     IF DictHas(categories, item_type)
                     THEN CategoryEntries(DictGet(categories, item_type, <<>>),
                                          DictGet(product_types, item_type, <<>>), <<>>)
                     ELSE <<>>))

\* FacetedMetadataGenerator.__init__
FacetedMetadataGenerator_init(file) ==
    LET vocabulary == FacetedMetadataGenerator_load_vocabulary(file)
    IN  [ vocabulary |-> vocabulary,
          item_type_hierarchy |->
              ItemTypeEntries(Get(vocabulary, "item_type", <<>>), vocabulary, <<>>) ]

\* the first element of list that satisfies P, or otherwise
FirstWhere(list, P(_), otherwise) ==
    IF \E i \in 1..Len(list) : P(list[i])
    THEN list[CHOOSE i \in 1..Len(list) : P(list[i]) /\ \A j \in 1..(i - 1) : ~P(list[j])]
    ELSE otherwise

\* list[0] if list else None
FirstOrNone(list) == IF list # <<>> THEN list[1] ELSE None

\* match.get("name", "").lower()
LowerName(match) == str_lower(Get(match, "name", <<>>))

FootwearWords == <<<<"s","h","o","e">>, <<"s","n","e","a","k","e","r">>, <<"b","o","o","t">>, <<"s","a","n","d","a","l">>, <<"f","o","o","t","w","e","a","r">>>>

_determine_item_typeIgnoringCase(image_attributes, csv_data) ==
    IF DOMAIN csv_data # {} /\ Truthy(Get(csv_data, "Category", None))
    THEN IF str_in(<<"f","o","o","t","w","e","a","r">>, str_lower(csv_data["Category"]))
            \/ str_in(<<"s","h","o","e">>, str_lower(csv_data["Category"]))
         THEN <<"F","o","o","t","w","e","a","r">> ELSE <<"A","p","p","a","r","e","l">>
    ELSE LET category_matches == Get(image_attributes, "category", <<>>)
         IN  IF \E i \in 1..Len(category_matches) :
                    AnyIn(FootwearWords, LowerName(category_matches[i]))
             THEN <<"F","o","o","t","w","e","a","r">> ELSE <<"A","p","p","a","r","e","l">>

_determine_item_type(image_attributes, csv_data) ==
    IF DOMAIN csv_data # {} /\ Truthy(Get(csv_data, "Category", None))
    THEN IF str_in(<<"F","o","o","t","w","e","a","r">>, csv_data["Category"]) \/ str_in(<<"S","h","o","e">>, csv_data["Category"])
         THEN <<"F","o","o","t","w","e","a","r">> ELSE <<"A","p","p","a","r","e","l">>
    ELSE LET category_matches == Get(image_attributes, "category", <<>>)
         IN  IF \E i \in 1..Len(category_matches) :
                    AnyIn(FootwearWords, LowerName(category_matches[i]))
             THEN <<"F","o","o","t","w","e","a","r">> ELSE <<"A","p","p","a","r","e","l">>

\* the loop over the image category candidates in _determine_gender
RECURSIVE GenderFromImage(_)
GenderFromImage(category_matches) ==
    IF category_matches = <<>> THEN <<"U","n","i","s","e","x">>
    ELSE LET name == LowerName(Head(category_matches))
         IN  IF str_in(<<"w","o","m","e","n">>, name) \/ str_in(<<"w","o","m","a","n">>, name) \/ str_in(<<"g","i","r","l">>, name)
             THEN <<"W","o","m","e","n">>
             ELSE IF str_in(<<"m","e","n">>, name) \/ str_in(<<"m","a","n">>, name) \/ str_in(<<"b","o","y">>, name)
             THEN <<"M","e","n">>
             ELSE GenderFromImage(Tail(category_matches))

_determine_genderManualFirst(image_attributes, product_info, csv_data) ==
    IF DOMAIN product_info # {} /\ Truthy(Get(product_info, "gender", None))
    THEN LET gender == product_info["gender"]
         IN  IF str_in(<<"W","o","m","e","n">>, gender) \/ str_in(<<"G","i","r","l">>, gender) THEN <<"W","o","m","e","n">>
             ELSE IF str_in(<<"M","e","n">>, gender) \/ str_in(<<"B","o","y">>, gender) THEN <<"M","e","n">>
             ELSE <<"U","n","i","s","e","x">>
    ELSE IF DOMAIN csv_data # {} /\ Truthy(Get(csv_data, "Gender", None))
    THEN LET gender == csv_data["Gender"]
         IN  IF str_in(<<"G","i","r","l">>, gender) \/ str_in(<<"W","o","m","e","n">>, gender) \/ str_in(<<"F","e","m","a","l","e">>, gender)
             THEN <<"W","o","m","e","n">>
             ELSE IF str_in(<<"B","o","y">>, gender) \/ str_in(<<"M","e","n">>, gender) \/ str_in(<<"M","a","l","e">>, gender)
             THEN <<"M","e","n">>
             ELSE <<"U","n","i","s","e","x">>
    ELSE GenderFromImage(Get(image_attributes, "category", <<>>))

_determine_gender(image_attributes, product_info, csv_data) ==
    IF DOMAIN csv_data # {} /\ Truthy(Get(csv_data, "Gender", None))
    THEN LET gender == csv_data["Gender"]
         IN  IF str_in(<<"G","i","r","l">>, gender) \/ str_in(<<"W","o","m","e","n">>, gender) \/ str_in(<<"F","e","m","a","l","e">>, gender)
             THEN <<"W","o","m","e","n">>
             ELSE IF str_in(<<"B","o","y">>, gender) \/ str_in(<<"M","e","n">>, gender) \/ str_in(<<"M","a","l","e">>, gender)
             THEN <<"M","e","n">>
             ELSE <<"U","n","i","s","e","x">>
    ELSE IF DOMAIN product_info # {} /\ Truthy(Get(product_info, "gender", None))
    THEN LET gender == product_info["gender"]
         IN  IF str_in(<<"W","o","m","e","n">>, gender) \/ str_in(<<"G","i","r","l">>, gender) THEN <<"W","o","m","e","n">>
             ELSE IF str_in(<<"M","e","n">>, gender) \/ str_in(<<"B","o","y">>, gender) THEN <<"M","e","n">>
             ELSE <<"U","n","i","s","e","x">>
    ELSE GenderFromImage(Get(image_attributes, "category", <<>>))

\* lines 160-176: level 2 and level 3 from the row's SubCategory and ProductType
LevelsFromCsv(hierarchy, csv_data) ==
    LET subcategory == Get(csv_data, "SubCategory", <<>>)
        product_type == Get(csv_data, "ProductType", <<>>)
        Level3(key) == IF InList(product_type, DictGet(hierarchy, key, <<>>)) THEN product_type
                       ELSE FirstOrNone(DictGet(hierarchy, key, <<>>))
        Similar(key) == str_in(str_lower(key), str_lower(subcategory))
                        \/ str_in(str_lower(subcategory), str_lower(key))
        key == FirstWhere(DictKeys(hierarchy), Similar, None)
    IN  IF DictHas(hierarchy, subcategory) THEN <<subcategory, Level3(subcategory)>>
        ELSE IF key # None THEN <<key, Level3(key)>>
        ELSE <<None, None>>

\* lines 182-199: the first candidate and hierarchy key that name each other
RECURSIVE LevelsFromKeys(_, _, _, _)
LevelsFromKeys(hierarchy, category_matches, level2, level3) ==
    IF category_matches = <<>> THEN <<level2, level3>>
    ELSE LET name == LowerName(Head(category_matches))
             Names(key) == \/ str_in(str_lower(key), name)
                           \/ AnyIn(str_split(str_lower(key)), name)
                           \/ str_in(name, str_lower(key))
             key == FirstWhere(DictKeys(hierarchy), Names, None)
         IN  IF key = None
             THEN LevelsFromKeys(hierarchy, Tail(category_matches), level2, level3)
             ELSE IF Truthy(key)
             THEN <<key, FirstOrNone(DictGet(hierarchy, key, <<>>))>>
             ELSE LevelsFromKeys(hierarchy, Tail(category_matches), key,
                                 FirstOrNone(DictGet(hierarchy, key, <<>>)))

\* level3 if level3 else otherwise
OrElse(level3, otherwise) == IF Truthy(level3) THEN level3 ELSE otherwise

\* lines 205-335: one pass of the keyword chain for one candidate name;
\* returns <<break, level2, level3>>
KeywordBranch(hierarchy, item_type, name, level2, level3) ==
    LET Types(category) == DictGet(hierarchy, category, <<>>)
        Token(pt) == AnyIn(str_split(str_lower(pt)), name)
        First(category) == FirstOrNone(Types(category))
        Keep == <<FALSE, level2, level3>>
    IN  IF AnyIn(<<<<"t","s","h","i","r","t">>, <<"t","-","s","h","i","r","t">>, <<"t"," ","s","h","i","r","t">>>>, name)
        THEN IF DictHas(hierarchy, <<"T","o","p","w","e","a","r">>)
             THEN LET a == FirstWhere(Types(<<"T","o","p","w","e","a","r">>),
                                      LAMBDA pt : str_in(<<"t","s","h","i","r","t">>, str_lower(pt))
                                                  \/ str_in(<<"t","-","s","h","i","r","t">>, str_lower(pt)), level3)
                      b == IF Truthy(a) THEN a
                           ELSE FirstWhere(Types(<<"T","o","p","w","e","a","r">>),
                                           LAMBDA pt : str_in(<<"t","o","p">>, str_lower(pt)), a)
                  IN  <<TRUE, <<"T","o","p","w","e","a","r">>, OrElse(b, First(<<"T","o","p","w","e","a","r">>))>>
             ELSE Keep
        ELSE IF AnyIn(<<<<"s","h","i","r","t">>, <<"b","l","o","u","s","e">>, <<"s","w","e","a","t","e","r">>, <<"h","o","o","d","i","e">>, <<"s","w","e","a","t","s","h","i","r","t">>, <<"p","o","l","o">>>>, name)
        THEN IF DictHas(hierarchy, <<"T","o","p","w","e","a","r">>)
             THEN LET a == FirstWhere(Types(<<"T","o","p","w","e","a","r">>), Token, level3)
                      b == IF Truthy(a) THEN a
                           ELSE FirstWhere(Types(<<"T","o","p","w","e","a","r">>),
                                           LAMBDA pt : str_in(<<"s","h","i","r","t">>, str_lower(pt)), a)
                  IN  <<TRUE, <<"T","o","p","w","e","a","r">>, OrElse(b, First(<<"T","o","p","w","e","a","r">>))>>
             ELSE Keep
        ELSE IF AnyIn(<<<<"t","o","p">>, <<"b","l","a","z","e","r">>, <<"j","a","c","k","e","t">>, <<"w","a","i","s","t","c","o","a","t">>, <<"k","u","r","t","a">>>>, name)
        THEN IF DictHas(hierarchy, <<"T","o","p","w","e","a","r">>)
             THEN <<TRUE, <<"T","o","p","w","e","a","r">>,
                    OrElse(FirstWhere(Types(<<"T","o","p","w","e","a","r">>), Token, level3), First(<<"T","o","p","w","e","a","r">>))>>
             ELSE Keep
        ELSE IF AnyIn(<<<<"c","a","r","g","o"," ","s","h","o","r","t","s">>, <<"c","a","r","g","o"," ","s","h","o","r","t">>>>, name)
        THEN IF DictHas(hierarchy, <<"B","o","t","t","o","m","w","e","a","r">>)
             THEN <<TRUE, <<"B","o","t","t","o","m","w","e","a","r">>,
                    OrElse(FirstWhere(Types(<<"B","o","t","t","o","m","w","e","a","r">>),
                                      LAMBDA pt : str_in(<<"s","h","o","r","t">>, str_lower(pt)), level3),
                           First(<<"B","o","t","t","o","m","w","e","a","r">>))>>
             ELSE Keep
        ELSE IF AnyIn(<<<<"s","h","o","r","t">>, <<"s","h","o","r","t","s">>>>, name)
        THEN IF DictHas(hierarchy, <<"B","o","t","t","o","m","w","e","a","r">>)
             THEN <<TRUE, <<"B","o","t","t","o","m","w","e","a","r">>,
                    OrElse(FirstWhere(Types(<<"B","o","t","t","o","m","w","e","a","r">>),
                                      LAMBDA pt : str_in(<<"s","h","o","r","t">>, str_lower(pt)), level3),
                           First(<<"B","o","t","t","o","m","w","e","a","r">>))>>
             ELSE Keep
        ELSE IF AnyIn(<<<<"j","e","a","n">>, <<"j","e","a","n","s">>>>, name)
        THEN IF DictHas(hierarchy, <<"B","o","t","t","o","m","w","e","a","r">>)
             THEN <<TRUE, <<"B","o","t","t","o","m","w","e","a","r">>,
                    OrElse(FirstWhere(Types(<<"B","o","t","t","o","m","w","e","a","r">>),
                                      LAMBDA pt : str_in(<<"j","e","a","n">>, str_lower(pt)), level3),
                           First(<<"B","o","t","t","o","m","w","e","a","r">>))>>
             ELSE Keep
        ELSE IF AnyIn(<<<<"p","a","n","t">>, <<"p","a","n","t","s">>, <<"t","r","o","u","s","e","r">>, <<"t","r","o","u","s","e","r","s">>, <<"c","h","i","n","o">>, <<"c","h","i","n","o","s">>>>, name)
        THEN IF DictHas(hierarchy, <<"B","o","t","t","o","m","w","e","a","r">>)
             THEN <<TRUE, <<"B","o","t","t","o","m","w","e","a","r">>,
                    OrElse(FirstWhere(Types(<<"B","o","t","t","o","m","w","e","a","r">>),
                                      LAMBDA pt : str_in(<<"p","a","n","t">>, str_lower(pt))
                                                  \/ str_in(<<"t","r","o","u","s","e","r">>, str_lower(pt)), level3),
                           First(<<"B","o","t","t","o","m","w","e","a","r">>))>>
             ELSE Keep
        ELSE IF AnyIn(<<<<"s","k","i","r","t">>, <<"l","e","g","g","i","n","g">>, <<"l","e","g","g","i","n","g","s">>, <<"c","a","p","r","i">>, <<"c","h","u","r","i","d","a","r">>, <<"s","a","l","w","a","r">>>>, name)
        THEN IF DictHas(hierarchy, <<"B","o","t","t","o","m","w","e","a","r">>)
             THEN <<TRUE, <<"B","o","t","t","o","m","w","e","a","r">>,
                    OrElse(FirstWhere(Types(<<"B","o","t","t","o","m","w","e","a","r">>), Token, level3), First(<<"B","o","t","t","o","m","w","e","a","r">>))>>
             ELSE Keep
        ELSE IF str_in(<<"d","r","e","s","s">>, name) \/ str_in(<<"l","e","h","e","n","g","a">>, name)
        THEN IF DictHas(hierarchy, <<"D","r","e","s","s">>) THEN <<TRUE, <<"D","r","e","s","s">>, First(<<"D","r","e","s","s">>)>> ELSE Keep
        ELSE IF AnyIn(<<<<"s","h","o","e">>, <<"s","n","e","a","k","e","r">>, <<"b","o","o","t">>, <<"s","a","n","d","a","l">>, <<"f","l","i","p">>, <<"f","l","o","p">>>>, name)
        THEN IF item_type = <<"F","o","o","t","w","e","a","r">>
             THEN IF DictHas(hierarchy, <<"S","h","o","e","s">>)
                  THEN <<TRUE, <<"S","h","o","e","s">>,
                         OrElse(FirstWhere(Types(<<"S","h","o","e","s">>), Token, level3), First(<<"S","h","o","e","s">>))>>
                  ELSE IF DictHas(hierarchy, <<"S","a","n","d","a","l">>) THEN <<TRUE, <<"S","a","n","d","a","l">>, First(<<"S","a","n","d","a","l">>)>>
                  ELSE IF DictHas(hierarchy, <<"F","l","i","p"," ","F","l","o","p","s">>)
                  THEN <<TRUE, <<"F","l","i","p"," ","F","l","o","p","s">>, First(<<"F","l","i","p"," ","F","l","o","p","s">>)>>
                  ELSE <<TRUE, level2, level3>>
             ELSE <<TRUE, level2, level3>>
        ELSE IF AnyIn(<<<<"v","e","s","t">>, <<"i","n","n","e","r","w","e","a","r">>, <<"u","n","d","e","r","w","e","a","r">>>>, name)
        THEN IF DictHas(hierarchy, <<"I","n","n","e","r","w","e","a","r">>)
             THEN <<TRUE, <<"I","n","n","e","r","w","e","a","r">>, First(<<"I","n","n","e","r","w","e","a","r">>)>> ELSE Keep
        ELSE IF AnyIn(<<<<"s","e","t">>, <<"k","u","r","t","a"," ","s","e","t">>>>, name)
        THEN IF DictHas(hierarchy, <<"A","p","p","a","r","e","l"," ","S","e","t">>)
             THEN <<TRUE, <<"A","p","p","a","r","e","l"," ","S","e","t">>, First(<<"A","p","p","a","r","e","l"," ","S","e","t">>)>> ELSE Keep
        ELSE Keep

\* lines 202-335: the keyword chain over the candidates, until one breaks
RECURSIVE LevelsFromKeywords(_, _, _, _, _)
LevelsFromKeywords(hierarchy, item_type, category_matches, level2, level3) ==
    IF category_matches = <<>> THEN <<level2, level3>>
    ELSE LET r == KeywordBranch(hierarchy, item_type, LowerName(Head(category_matches)),
                                level2, level3)
         IN  IF r[1] THEN <<r[2], r[3]>>
             ELSE LevelsFromKeywords(hierarchy, item_type, Tail(category_matches), r[2], r[3])

\* lines 178-335: level 2 and level 3 from the image category candidates
LevelsFromImage(hierarchy, item_type, image_attributes) ==
    LET category_matches == Get(image_attributes, "category", <<>>)
        direct == LevelsFromKeys(hierarchy, category_matches, None, None)
    IN  IF Truthy(direct[1]) THEN direct
        ELSE LevelsFromKeywords(hierarchy, item_type, category_matches, direct[1], direct[2])

\* lines 346-356: the level 3 of a category without product types
GenericLevel3(level2) ==
    IF level2 = <<"T","o","p","w","e","a","r">> THEN <<"T","o","p","s">>
    ELSE IF level2 = <<"B","o","t","t","o","m","w","e","a","r">> THEN <<"P","a","n","t","s">>
    ELSE IF level2 = <<"D","r","e","s","s">> THEN <<"D","r","e","s","s","e","s">>
    ELSE IF level2 = <<"S","h","o","e","s">> THEN <<"C","a","s","u","a","l"," ","S","h","o","e","s">>
    ELSE <<"U","n","k","n","o","w","n">>

\* the level as found, with no default
OrUnknownKept(value) == value

\* value or "Unknown"
OrUnknown(value) == IF Truthy(value) THEN value ELSE <<"U","n","k","n","o","w","n">>

\* f"{level_1} > {level_2} > {level_3}"
FullPath(level_1, level_2, level_3) == level_1 \o <<" ",">"," ">> \o level_2 \o <<" ",">"," ">> \o level_3

_build_item_type_hierarchyImageForBareRow(self, item_type, image_attributes, csv_data) ==
    LET hierarchy == DictGet(self.item_type_hierarchy, item_type, <<>>)
        found == IF DOMAIN csv_data # {} /\ Truthy(Get(csv_data, "SubCategory", <<>>))
                 THEN LevelsFromCsv(hierarchy, csv_data)
                 ELSE LevelsFromImage(hierarchy, item_type, image_attributes)
        level2 == IF ~Truthy(found[1]) /\ hierarchy # <<>> THEN DictKeys(hierarchy)[1]
                  ELSE found[1]
        level3 == IF Truthy(found[2]) THEN found[2]
                  ELSE IF Truthy(level2) /\ DictGet(hierarchy, level2, <<>>) # <<>>
                  THEN DictGet(hierarchy, level2, <<>>)[1]
                  ELSE GenericLevel3(level2)
    IN  [ level_1 |-> item_type,
          level_2 |-> OrUnknown(level2),
          level_3 |-> OrUnknown(level3),
          full_path |-> FullPath(item_type, OrUnknown(level2), OrUnknown(level3)),
          hierarchy_tree |-> hierarchy ]

_build_item_type_hierarchy(self, item_type, image_attributes, csv_data) ==
    LET hierarchy == DictGet(self.item_type_hierarchy, item_type, <<>>)
        found == IF DOMAIN csv_data # {} THEN LevelsFromCsv(hierarchy, csv_data)
                 ELSE LevelsFromImage(hierarchy, item_type, image_attributes)
        level2 == IF ~Truthy(found[1]) /\ hierarchy # <<>> THEN DictKeys(hierarchy)[1]
                  ELSE found[1]
        level3 == IF Truthy(found[2]) THEN found[2]
                  ELSE IF Truthy(level2) /\ DictGet(hierarchy, level2, <<>>) # <<>>
                  THEN DictGet(hierarchy, level2, <<>>)[1]
                  ELSE GenericLevel3(level2)
    IN  [ level_1 |-> item_type,
          level_2 |-> OrUnknown(level2),
          level_3 |-> OrUnknown(level3),
          full_path |-> FullPath(item_type, OrUnknown(level2), OrUnknown(level3)),
          hierarchy_tree |-> hierarchy ]

_get_default_style_hierarchy ==
    <<<<<<"C","a","s","u","a","l">>,
         <<<<<<"E","v","e","r","y","d","a","y">>, <<<<"B","a","s","i","c">>, <<"C","o","m","f","o","r","t">>, <<"R","e","l","a","x","e","d">>>>>>,
           <<<<"S","t","r","e","e","t","w","e","a","r">>, <<<<"U","r","b","a","n">>, <<"T","r","e","n","d","y">>, <<"A","t","h","l","e","t","i","c">>>>>>,
           <<<<"W","e","e","k","e","n","d">>, <<<<"L","e","i","s","u","r","e">>, <<"O","u","t","d","o","o","r">>, <<"A","c","t","i","v","e">>>>>>,
           <<<<"S","m","a","r","t"," ","C","a","s","u","a","l">>, <<<<"P","o","l","i","s","h","e","d">>, <<"R","e","f","i","n","e","d">>, <<"E","l","e","v","a","t","e","d">>>>>>>>>>,
      <<<<"F","o","r","m","a","l">>,
         <<<<<<"B","u","s","i","n","e","s","s">>, <<<<"P","r","o","f","e","s","s","i","o","n","a","l">>, <<"C","o","r","p","o","r","a","t","e">>, <<"O","f","f","i","c","e">>>>>>,
           <<<<"E","v","e","n","i","n","g">>, <<<<"E","l","e","g","a","n","t">>, <<"S","o","p","h","i","s","t","i","c","a","t","e","d">>, <<"D","r","e","s","s","y">>>>>>,
           <<<<"S","p","e","c","i","a","l"," ","O","c","c","a","s","i","o","n">>, <<<<"P","a","r","t","y">>, <<"W","e","d","d","i","n","g">>, <<"E","v","e","n","t">>>>>>>>>>,
      <<<<"S","p","o","r","t","y">>,
         <<<<<<"A","t","h","l","e","t","i","c">>, <<<<"P","e","r","f","o","r","m","a","n","c","e">>, <<"T","r","a","i","n","i","n","g">>, <<"G","y","m">>>>>>,
           <<<<"A","c","t","i","v","e">>, <<<<"O","u","t","d","o","o","r">>, <<"H","i","k","i","n","g">>, <<"R","u","n","n","i","n","g">>>>>>,
           <<<<"A","t","h","l","e","i","s","u","r","e">>, <<<<"C","o","m","f","o","r","t">>, <<"S","t","y","l","i","s","h">>, <<"V","e","r","s","a","t","i","l","e">>>>>>>>>>,
      <<<<"E","t","h","n","i","c">>,
         <<<<<<"T","r","a","d","i","t","i","o","n","a","l">>, <<<<"C","l","a","s","s","i","c">>, <<"C","u","l","t","u","r","a","l">>, <<"H","e","r","i","t","a","g","e">>>>>>,
           <<<<"F","u","s","i","o","n">>, <<<<"M","o","d","e","r","n">>, <<"C","o","n","t","e","m","p","o","r","a","r","y">>, <<"B","l","e","n","d","e","d">>>>>>>>>>>>

\* lines 377-402: level 1 of the style facet, from the row's Usage
StyleLevel1WithoutClosestMatch(style_hierarchy, csv_data) ==
    LET usage == Get(csv_data, "Usage", None)
        level1 == IF DOMAIN csv_data # {} /\ Truthy(usage)
                  THEN IF DictHas(style_hierarchy, usage) THEN usage
                       ELSE IF str_in(<<"C","a","s","u","a","l">>, usage) THEN <<"C","a","s","u","a","l">>
                       ELSE IF str_in(<<"F","o","r","m","a","l">>, usage) THEN <<"F","o","r","m","a","l">>
                       ELSE IF str_in(<<"S","p","o","r","t">>, usage) \/ str_in(<<"A","t","h","l","e","t","i","c">>, usage)
                       THEN <<"S","p","o","r","t","y">>
                       ELSE IF str_in(<<"E","t","h","n","i","c">>, usage) THEN <<"E","t","h","n","i","c">>
                       ELSE None
                  ELSE None
    IN  IF Truthy(level1) THEN level1 ELSE <<"C","a","s","u","a","l">>

StyleLevel1(style_hierarchy, csv_data) ==
    LET usage == Get(csv_data, "Usage", None)
        Close(key) == str_in(str_lower(key), str_lower(usage))
                      \/ str_in(str_lower(usage), str_lower(key))
        level1 == IF DOMAIN csv_data # {} /\ Truthy(usage)
                  THEN IF DictHas(style_hierarchy, usage) THEN usage
                       ELSE IF str_in(<<"C","a","s","u","a","l">>, usage) \/ str_in(<<"S","m","a","r","t"," ","C","a","s","u","a","l">>, usage)
                       THEN <<"C","a","s","u","a","l">>
                       ELSE IF str_in(<<"F","o","r","m","a","l">>, usage) THEN <<"F","o","r","m","a","l">>
                       ELSE IF str_in(<<"S","p","o","r","t">>, usage) \/ str_in(<<"A","t","h","l","e","t","i","c">>, usage)
                               \/ str_in(<<"S","p","o","r","t","s">>, usage)
                       THEN <<"S","p","o","r","t","y">>
                       ELSE IF str_in(<<"E","t","h","n","i","c">>, usage) THEN <<"E","t","h","n","i","c">>
                       ELSE FirstWhere(DictKeys(style_hierarchy), Close, None)
                  ELSE None
    IN  IF Truthy(level1) THEN level1 ELSE <<"C","a","s","u","a","l">>

_build_style_hierarchy(self, image_attributes, csv_data) ==
    LET style_hierarchy == Get(self.vocabulary, "style_hierarchy", _get_default_style_hierarchy)
        level1 == StyleLevel1(style_hierarchy, csv_data)
        hierarchy == DictGet(style_hierarchy, level1, <<>>)
        level2 == IF hierarchy # <<>> THEN DictKeys(hierarchy)[1]
                  ELSE IF level1 = <<"C","a","s","u","a","l">> THEN <<"E","v","e","r","y","d","a","y">>
                  ELSE IF level1 = <<"F","o","r","m","a","l">> THEN <<"B","u","s","i","n","e","s","s">>
                  ELSE IF level1 = <<"S","p","o","r","t","y">> THEN <<"A","t","h","l","e","t","i","c">>
                  ELSE IF level1 = <<"E","t","h","n","i","c">> THEN <<"T","r","a","d","i","t","i","o","n","a","l">>
                  ELSE <<"E","v","e","r","y","d","a","y">>
        level3 == IF hierarchy # <<>> /\ DictGet(hierarchy, level2, <<>>) # <<>>
                  THEN DictGet(hierarchy, level2, <<>>)[1]
                  ELSE IF level1 = <<"C","a","s","u","a","l">> THEN <<"B","a","s","i","c">>
                  ELSE IF level1 = <<"F","o","r","m","a","l">> THEN <<"P","r","o","f","e","s","s","i","o","n","a","l">>
                  ELSE IF level1 = <<"S","p","o","r","t","y">> THEN <<"P","e","r","f","o","r","m","a","n","c","e">>
                  ELSE IF level1 = <<"E","t","h","n","i","c">> THEN <<"C","l","a","s","s","i","c">>
                  ELSE <<"B","a","s","i","c">>
    IN  [ level_1 |-> level1,
          level_2 |-> OrUnknown(level2),
          level_3 |-> OrUnknown(level3),
          full_path |-> FullPath(level1, OrUnknown(level2), OrUnknown(level3)),
          hierarchy_tree |-> hierarchy ]

\* key_map of _extract_flat_value
CsvKey(key) ==
    CASE key = "color" -> "Colour"
      [] key = "material" -> "Material"
      [] key = "pattern" -> "Pattern"
      [] key = "size" -> "Size"
      [] key = "brand" -> "Brand"

\* value_type is the Python type of the values of source1 that isinstance
\* inspects: "list" for image_attributes (ranked candidate lists), "str" for
\* product_info; the candidates are dicts with a name, so the list branch
\* returns value[0]["name"]
_extract_flat_value(key, source1, value_type, source2) ==
    IF key \in DOMAIN source1 /\ value_type = "list" /\ Len(source1[key]) > 0
    THEN source1[key][1].name
    ELSE IF key \in DOMAIN source1 /\ value_type = "str"
    THEN source1[key]
    ELSE IF DOMAIN source2 # {} /\ CsvKey(key) \in DOMAIN source2
    THEN source2[CsvKey(key)]
    ELSE <<"U","n","k","n","o","w","n">>

_build_flat_metadata(image_attributes, product_info, csv_data, item_type, gender) ==
    LET flat == [ color |-> _extract_flat_value("color", image_attributes, "list", csv_data),
                  material |-> _extract_flat_value("material", image_attributes, "list", csv_data),
                  pattern |-> _extract_flat_value("pattern", image_attributes, "list", csv_data),
                  size |-> _extract_flat_value("size", product_info, "str", csv_data),
                  brand |-> _extract_flat_value("brand", product_info, "str", csv_data),
                  product_id |-> Get(csv_data, "ProductId", <<>>),
                  product_title |-> Get(csv_data, "ProductTitle", <<>>),
                  image_url |-> Get(csv_data, "ImageURL", <<>>),
                  image_file |-> Get(csv_data, "Image", <<>>) ]
        Details(attr_type, name) ==
            IF Get(image_attributes, attr_type, <<>>) # <<>>
            THEN name :> image_attributes[attr_type] ELSE EmptyDict
    IN  flat @@ Details("color", "color_details") @@ Details("material", "material_details")
             @@ Details("pattern", "pattern_details") @@ Details("style", "style_details")

generate_faceted_metadata(self, image_attributes, product_info, csv_data) ==
    LET item_type == _determine_item_type(image_attributes, csv_data)
        gender == _determine_gender(image_attributes, product_info, csv_data)
    IN  [ faceted_metadata |->
            [ hierarchical_facets |->
                [ facet_1_item_type |->
                      _build_item_type_hierarchy(self, item_type, image_attributes, csv_data),
                  facet_2_style_usage |->
                      _build_style_hierarchy(self, image_attributes, csv_data) ],
              flat_facets |->
                  _build_flat_metadata(image_attributes, product_info, csv_data,
                                       item_type, gender) ],
          item_type |-> item_type,
          gender |-> gender ]

\* ------------------------------------------------------------------------
\* models/confidence_scorer.py
\*
\* A confidence is an integer number of hundredths; an optional argument
\* is <<>> when it is None and <<x>> when it is x.  calculate_confidence
\* works in thousandths, where the mean of two confidences is exact.
\* ------------------------------------------------------------------------

Min(a, b) == IF a <= b THEN a ELSE b

Max(a, b) == IF a >= b THEN a ELSE b

\* source_confidence.get(source, 0.5), in thousandths
SourceConfidence(source) ==
    CASE source = "manual" -> 1000
      [] source = "csv" -> 900
      [] source = "image" -> 700
      [] source = "generated" -> 600
      [] OTHER -> 500

\* round(base, 2) of a number of thousandths, in hundredths.  Every base
\* the scorer is given here is a whole number of hundredths, which round
\* returns as it is: the image confidences are even hundredths, so that
\* the mean with 0.7 never ends in 5 thousandths, where the result of
\* round depends on the binary representation of the float.
Round2(base) == CHOOSE q \in 0..100 : 10 * q = base

calculate_confidenceAveragedForAnySource(field, value, source, image_confidence, vocabulary_match) ==
    LET by_source == SourceConfidence(source)
        by_image == IF image_confidence # <<>>
                    THEN (by_source + 10 * image_confidence[1]) \div 2
                    ELSE by_source
        by_vocabulary == IF vocabulary_match = <<>> THEN by_image
                         ELSE IF vocabulary_match[1] THEN Min(1000, by_image + 100)
                         ELSE Max(0, by_image - 200)
        base == IF field \in {"gender", "item_type", "size"} THEN Min(1000, by_vocabulary + 100)
                ELSE IF field \in {"color", "material"}
                THEN IF source = "image" /\ image_confidence # <<>> /\ image_confidence[1] # 0
                     THEN 10 * image_confidence[1]
                     ELSE by_vocabulary
                ELSE IF field \in {"title", "description"} THEN Max(0, by_vocabulary - 100)
                ELSE by_vocabulary
    IN  Round2(base)

calculate_confidence(field, value, source, image_confidence, vocabulary_match) ==
    LET by_source == SourceConfidence(source)
        by_image == IF image_confidence # <<>> /\ source = "image"
                    THEN (by_source + 10 * image_confidence[1]) \div 2
                    ELSE by_source
        by_vocabulary == IF vocabulary_match = <<>> THEN by_image
                         ELSE IF vocabulary_match[1] THEN Min(1000, by_image + 100)
                         ELSE Max(0, by_image - 200)
        base == IF field \in {"gender", "item_type", "size"} THEN Min(1000, by_vocabulary + 100)
                ELSE IF field \in {"color", "material"}
                THEN IF source = "image" /\ image_confidence # <<>> /\ image_confidence[1] # 0
                     THEN 10 * image_confidence[1]
                     ELSE by_vocabulary
                ELSE IF field \in {"title", "description"} THEN Max(0, by_vocabulary - 100)
                ELSE by_vocabulary
    IN  Round2(base)

RECURSIVE Gcd(_, _)
Gcd(a, b) == IF b = 0 THEN a ELSE Gcd(b, a % b)

MeanOfTheCriticalFields(scores) ==
    LET critical == DOMAIN scores \cap {"item_type", "gender", "category", "product_type"}
        RECURSIVE Sum(_)
        Sum(fields) == IF fields = {} THEN 0
                       ELSE LET f == CHOOSE f \in fields : TRUE
                            IN  scores[f] + Sum(fields \ {f})
        total == Sum(critical)
        count == Max(Cardinality(critical), 1)
        g == Gcd(Max(total, 1), count)
    IN  IF total = 0 THEN <<0, 1>> ELSE <<total \div g, count \div g>>

\* sum(scores.values()) / len(scores), as a fraction <<numerator,
\* denominator>> of hundredths in lowest terms
Mean(scores) ==
    LET RECURSIVE Sum(_)
        Sum(fields) == IF fields = {} THEN 0
                       ELSE LET f == CHOOSE f \in fields : TRUE
                            IN  scores[f] + Sum(fields \ {f})
        total == Sum(DOMAIN scores)
        count == Cardinality(DOMAIN scores)
        g == Gcd(Max(total, 1), count)
    IN  IF total = 0 THEN <<0, 1>> ELSE <<total \div g, count \div g>>

\* color_attrs[0].get('confidence', 0.5) when image_attributes has
\* candidates for the axis, else None
FirstConfidence(image_attributes, axis) ==
    IF Get(image_attributes, axis, <<>>) # <<>>
    THEN <<Get(image_attributes[axis][1], "confidence", 50)>>
    ELSE <<>>

score_metadata(metadata, image_attributes, vocabulary_manager, product_info) ==
    LET faceted == Get(Get(metadata, "faceted", EmptyDict), "faceted_metadata", EmptyDict)
        hierarchical == Get(faceted, "hierarchical_facets", EmptyDict)
        flat == Get(faceted, "flat_facets", EmptyDict)
        item_type == Get(Get(metadata, "faceted", EmptyDict), "item_type", <<>>)
        gender == Get(Get(metadata, "faceted", EmptyDict), "gender", <<>>)
        facet1 == Get(hierarchical, "facet_1_item_type", EmptyDict)
        category == Get(facet1, "level_2", <<>>)
        product_type == Get(facet1, "level_3", <<>>)
        has_info == DOMAIN product_info # {}
        Match(field, value, context) == <<validate(vocabulary_manager, field, value, context)[1]>>
        Score(field, present, score) == IF present THEN field :> score ELSE EmptyDict
        scores ==
            Score("item_type", Truthy(item_type),
                  calculate_confidence("item_type", item_type,
                      IF has_info THEN "csv" ELSE "image", <<>>,
                      Match("item_type", item_type, EmptyDict)))
            @@ Score("gender", Truthy(gender),
                  calculate_confidence("gender", gender,
                      IF has_info /\ Truthy(Get(product_info, "gender", None))
                      THEN "manual" ELSE "csv", <<>>,
                      Match("gender", gender, EmptyDict)))
            @@ Score("category", DOMAIN facet1 # {} /\ Truthy(category),
                  calculate_confidence("category", category,
                      IF has_info THEN "csv" ELSE "image", <<>>,
                      Match("category", category, [item_type |-> item_type])))
            @@ Score("product_type", DOMAIN facet1 # {} /\ Truthy(product_type),
                  calculate_confidence("product_type", product_type,
                      IF has_info THEN "csv" ELSE "image", <<>>,
                      Match("product_type", product_type,
                            [item_type |-> item_type, category |-> category])))
            @@ Score("color", Truthy(Get(flat, "color", None)),
                  calculate_confidence("color", flat["color"], "image",
                      FirstConfidence(image_attributes, "color"),
                      Match("color", flat["color"], EmptyDict)))
            @@ Score("material", Truthy(Get(flat, "material", None)),
                  calculate_confidence("material", flat["material"], "image",
                      FirstConfidence(image_attributes, "material"),
                      Match("material", flat["material"], EmptyDict)))
            @@ Score("brand", Truthy(Get(flat, "brand", None)),
                  calculate_confidence("brand", flat["brand"],
                      IF has_info /\ Truthy(Get(product_info, "brand", None))
                      THEN "manual" ELSE "csv", <<>>,
                      Match("brand", flat["brand"], EmptyDict)))
    IN  scores @@ ("overall" :> IF DOMAIN scores # {} THEN Mean(scores) ELSE <<50, 1>>)

\* overall < threshold for the fraction overall and a threshold in hundredths
BelowThreshold(overall, threshold) == overall[1] < threshold * overall[2]

requires_reviewInclusive(scores, threshold) ==
    LET overall == Get(scores, "overall", <<50, 1>>)
    IN  IF BelowThreshold(overall, threshold) THEN TRUE
        ELSE \E field \in {"item_type", "gender", "category", "product_type"} :
                field \in DOMAIN scores /\ scores[field] <= threshold

\* lines 181-204
requires_review(scores, threshold) ==
    LET overall == Get(scores, "overall", <<50, 1>>)
    IN  IF BelowThreshold(overall, threshold) THEN TRUE
        ELSE \E field \in {"item_type", "gender", "category", "product_type"} :
                field \in DOMAIN scores /\ scores[field] < threshold

\* ------------------------------------------------------------------------
\* models/text_generator.py: generate_title and generate_description
\* return their fallback in every branch
\* ------------------------------------------------------------------------

\* attr_list[0].get("name", default) if attr_list else otherwise
FirstName(image_attributes, axis, default, otherwise) ==
    IF Get(image_attributes, axis, <<>>) # <<>>
    THEN Get(image_attributes[axis][1], "name", default)
    ELSE otherwise

_fallback_title(product_info, image_attributes) ==
    LET brand == Get(product_info, "brand", <<>>)
        color == FirstName(image_attributes, "color", <<>>, <<>>)
        category == str_title(str_replace(str_replace(
                        FirstName(image_attributes, "category", <<"C","l","o","t","h","i","n","g">>, <<"C","l","o","t","h","i","n","g">>),
                        <<"'","s">>, <<>>), <<" ","c","l","o","t","h","i","n","g">>, <<>>))
        parts == (IF Truthy(brand) THEN <<brand>> ELSE <<>>)
                 \o (IF Truthy(color) THEN <<str_title(color)>> ELSE <<>>)
                 \o (IF Truthy(category) THEN <<category>> ELSE <<>>)
    IN  IF parts # <<>> THEN str_join(parts) ELSE <<"F","a","s","h","i","o","n"," ","P","r","o","d","u","c","t">>

generate_title(product_info, image_attributes) ==
    _fallback_title(product_info, image_attributes)

_fallback_description(product_info, image_attributes) ==
    LET brand == Get(product_info, "brand", <<>>)
        color == FirstName(image_attributes, "color", <<>>, <<>>)
        material == FirstName(image_attributes, "material", <<"q","u","a","l","i","t","y"," ","m","a","t","e","r","i","a","l","s">>,
                              <<"q","u","a","l","i","t","y"," ","m","a","t","e","r","i","a","l","s">>)
        category == str_lower(str_replace(str_replace(
                        FirstName(image_attributes, "category", <<"c","l","o","t","h","i","n","g"," ","i","t","e","m">>, <<"c","l","o","t","h","i","n","g"," ","i","t","e","m">>),
                        <<"'","s">>, <<>>), <<" ","c","l","o","t","h","i","n","g">>, <<>>))
        desc_parts == (IF Truthy(brand) THEN <<brand>> ELSE <<>>)
                      \o (IF Truthy(color) THEN <<color>> ELSE <<>>)
                      \o <<category>>
    IN  <<"T","h","i","s"," ">> \o str_join(desc_parts) \o <<" ","i","s"," ","c","r","a","f","t","e","d"," ","f","r","o","m"," ">> \o material
        \o <<" ","f","o","r"," ","c","o","m","f","o","r","t"," ","a","n","d"," ","d","u","r","a","b","i","l","i","t","y","."," ","P","e","r","f","e","c","t"," ","f","o","r"," ","e","v","e","r","y","d","a","y"," ","w","e","a","r",","," ","t","h","i","s"," ","p","i","e","c","e"," ","c","o","m","b","i","n","e","s"," ","s","t","y","l","e"," ","a","n","d"," ","f","u","n","c","t","i","o","n","a","l","i","t","y","."," ","M","a","d","e"," ","w","i","t","h"," ","a","t","t","e","n","t","i","o","n"," ","t","o"," ","d","e","t","a","i","l"," ","a","n","d"," ","q","u","a","l","i","t","y"," ","c","o","n","s","t","r","u","c","t","i","o","n",".">>

generate_description(product_info, image_attributes) ==
    _fallback_description(product_info, image_attributes)

generate_bullet_points(product_info, image_attributes) ==
    LET Name(axis) == FirstName(image_attributes, axis, <<>>, <<>>)
        bullets ==
            (IF Truthy(Name("color")) THEN <<<<"A","v","a","i","l","a","b","l","e"," ","i","n"," ">> \o Name("color")>> ELSE <<>>)
            \o (IF Truthy(Name("material"))
                THEN <<<<"M","a","d","e"," ","f","r","o","m"," ","p","r","e","m","i","u","m"," ">> \o Name("material")>> ELSE <<>>)
            \o (IF Truthy(Name("style"))
                THEN <<str_capitalize(Name("style")) \o <<" ","d","e","s","i","g","n">>>> ELSE <<>>)
            \o (IF Truthy(Name("pattern"))
                THEN <<str_capitalize(Name("pattern")) \o <<" ","p","a","t","t","e","r","n">>>> ELSE <<>>)
        padded == IF Len(bullets) < 3
                  THEN bullets \o <<<<"H","i","g","h","-","q","u","a","l","i","t","y"," ","c","o","n","s","t","r","u","c","t","i","o","n">>, <<"C","o","m","f","o","r","t","a","b","l","e"," ","f","i","t">>,
                                    <<"E","a","s","y"," ","t","o"," ","c","a","r","e"," ","f","o","r">>>>
                  ELSE bullets
    IN  SubSeq(padded, 1, Min(5, Len(padded)))

\* description[:150] + '...' if len(description) > 150 else description
ShortDescription(description) ==
    IF Len(description) > 150 THEN SubSeq(description, 1, 150) \o <<".",".",".">> ELSE description

\* ------------------------------------------------------------------------
\* models/image_analyzer.py: the vision call is outside the program; what
\* the program sees is the dict analyze_image returns
\* ------------------------------------------------------------------------

\* one candidate, as _parse_claude_response appends it
Candidate(name, confidence) == [name |-> name, confidence |-> confidence]

\* the attributes _parse_claude_response returns: every axis present, each
\* with no candidate or one
ParsedAttributes(category, color, material, pattern, style) ==
    [ category |-> category, color |-> color, material |-> material,
      pattern |-> pattern, style |-> style ]

\* analyze_image, lines 149-155: the analysis succeeded
AnalysisOf(attributes) ==
    [ top_matches |-> <<<<FirstName(attributes, "category", <<"u","n","k","n","o","w","n">>, <<"u","n","k","n","o","w","n">>), 100>>>>,
      attributes |-> attributes ]

\* analyze_image, lines 157-163: any exception is turned into a result
\* with empty attributes and the message under "error"
AnalysisError(message) ==
    [ top_matches |-> <<>>, attributes |-> EmptyDict, error |-> message ]

\* ------------------------------------------------------------------------
\* app_streamlit.py: the single product page and its review interface
\* ------------------------------------------------------------------------

\* datetime.now().isoformat(): the instant is not modelled
Now == <<"n","o","w">>

\* lines 166-183 and 549-562: the validation map of a record's fields
ValidationResults(vocabulary_manager, gender, item_type, color, material, facet1) ==
    LET flat == [ gender |-> validate(vocabulary_manager, "gender", gender, EmptyDict),
                  item_type |-> validate(vocabulary_manager, "item_type", item_type, EmptyDict),
                  color |-> validate(vocabulary_manager, "color", color, EmptyDict),
                  material |-> validate(vocabulary_manager, "material", material, EmptyDict) ]
        checked == validate_hierarchy(vocabulary_manager, Get(facet1, "level_1", <<>>),
                                      Get(facet1, "level_2", <<>>), Get(facet1, "level_3", <<>>))
    IN  IF DOMAIN facet1 # {}
        THEN flat @@ ("hierarchy" :> <<checked[1], IF ~checked[1] THEN checked[2] ELSE None, None>>)
        ELSE flat

\* lines 133-204: the record the Generate Metadata button builds
single_product_page(models, image_analysis, brand, gender, size) ==
    LET image_attributes == Get(image_analysis, "attributes", EmptyDict)
        product_info == [brand |-> brand, gender |-> gender, size |-> size]
        faceted_metadata == generate_faceted_metadata(models.faceted_generator,
                                                      image_attributes, product_info, EmptyDict)
        title == generate_title(product_info, image_attributes)
        description == generate_description(product_info, image_attributes)
        bullet_points == generate_bullet_points(product_info, image_attributes)
        flat_facets == faceted_metadata.faceted_metadata.flat_facets
        hierarchical == faceted_metadata.faceted_metadata.hierarchical_facets
    IN  [ faceted |-> faceted_metadata,
          descriptive |-> [ title |-> title,
                            short_description |-> ShortDescription(description),
                            long_description |-> description,
                            bullet_points |-> bullet_points ],
          confidence_scores |->
              score_metadata([ faceted |-> faceted_metadata,
                               descriptive |-> [title |-> title, description |-> description] ],
                             image_attributes, models.vocabulary_manager, product_info),
          validation_results |->
              ValidationResults(models.vocabulary_manager,
                                Get(faceted_metadata, "gender", <<>>),
                                Get(faceted_metadata, "item_type", <<>>),
                                Get(flat_facets, "color", <<>>),
                                Get(flat_facets, "material", <<>>),
                                Get(hierarchical, "facet_1_item_type", EmptyDict)),
          status |-> "pending_review",
          generated_at |-> Now,
          id |-> <<"m","e","t","a","_">> \o Now ]

\* index=options.index(current) + 1 if current in options else 0, over
\* [""] + options
Shown(current, options) == IF Truthy(current) /\ InList(current, options) THEN current ELSE <<>>

\* lines 262-298: the options of the category and product type selectboxes
CategoryOptions(vocabulary_manager, item_type) ==
    IF Truthy(item_type)
    THEN DictGet(Get(vocabulary_manager.vocabulary, "categories", <<>>), item_type, <<>>)
    ELSE <<>>

ProductTypeOptions(vocabulary_manager, item_type, category) ==
    IF Truthy(item_type) /\ Truthy(category)
    THEN DictGet(DictGet(Get(vocabulary_manager.vocabulary, "product_types", <<>>),
                         item_type, <<>>), category, <<>>)
    ELSE <<>>

\* lines 304-338: the options of the three style selectboxes
StyleHierarchy(vocabulary_manager) == Get(vocabulary_manager.vocabulary, "style_hierarchy", <<>>)

StyleLevel2Options(vocabulary_manager, style_level1) ==
    IF Truthy(style_level1)
    THEN DictKeys(DictGet(StyleHierarchy(vocabulary_manager), style_level1, <<>>))
    ELSE <<>>

StyleLevel3Options(vocabulary_manager, style_level1, style_level2) ==
    IF Truthy(style_level1) /\ Truthy(style_level2)
    THEN DictGet(DictGet(StyleHierarchy(vocabulary_manager), style_level1, <<>>),
                 style_level2, <<>>)
    ELSE <<>>

\* st.selectbox(key, [""] + options, index of current or 0): the widget
\* keeps the value it holds under its key while that value is still
\* offered, and otherwise shows what its index argument selects
Selectbox(session_state, key, options, current) ==
    IF key \in DOMAIN session_state /\ InList(session_state[key], <<<<>>>> \o options)
    THEN session_state[key]
    ELSE Shown(current, options)

\* st.text_input(key, value): the value under the key, or the value argument
TextInput(session_state, key, value) ==
    IF key \in DOMAIN session_state THEN session_state[key] ELSE value

\* lines 426-434: one text input per bullet of the record, keyed by its
\* position; bullet_points receives the non-empty ones
BulletInputs(session_state, bullets) ==
    LET held == Get(session_state, "bullet_inputs", <<>>)
    IN  [i \in 1..Len(bullets) |-> IF i <= Len(held) THEN held[i] ELSE bullets[i]]

\* lines 220-434: the widget values st.session_state holds after
\* display_review_interface has drawn the record
display_review_interface(models, metadata, session_state) ==
    LET vm == models.vocabulary_manager
        faceted == Get(Get(metadata, "faceted", EmptyDict), "faceted_metadata", EmptyDict)
        hierarchical == Get(faceted, "hierarchical_facets", EmptyDict)
        flat == Get(faceted, "flat_facets", EmptyDict)
        facet1 == Get(hierarchical, "facet_1_item_type", EmptyDict)
        facet2 == Get(hierarchical, "facet_2_style_usage", EmptyDict)
        desc == Get(metadata, "descriptive", EmptyDict)
        current_item_type == Get(facet1, "level_1", <<>>)
        item_type ==
            IF "item_type_edit" \in DOMAIN session_state THEN session_state["item_type_edit"]
            ELSE IF ~Truthy(current_item_type) THEN <<>>
            ELSE IF current_item_type = <<"A","p","p","a","r","e","l">> THEN <<"A","p","p","a","r","e","l">> ELSE <<"F","o","o","t","w","e","a","r">>
        category == Selectbox(session_state, "category_edit",
                              CategoryOptions(vm, item_type), Get(facet1, "level_2", <<>>))
        style_level1 == Selectbox(session_state, "style_level1_edit",
                                  DictKeys(StyleHierarchy(vm)), Get(facet2, "level_1", <<>>))
        style_level2 == Selectbox(session_state, "style_level2_edit",
                                  StyleLevel2Options(vm, style_level1),
                                  Get(facet2, "level_2", <<>>))
        bullet_inputs == BulletInputs(session_state, Get(desc, "bullet_points", <<>>))
        Flat(key, field) == Selectbox(session_state, key,
                                      get_valid_options(vm, field, EmptyDict),
                                      Get(flat, field, <<>>))
    IN  [ item_type_edit |-> item_type,
          category_edit |-> category,
          product_type_edit |->
              Selectbox(session_state, "product_type_edit",
                        ProductTypeOptions(vm, item_type, category),
                        Get(facet1, "level_3", <<>>)),
          style_level1_edit |-> style_level1,
          style_level2_edit |-> style_level2,
          style_level3_edit |->
              Selectbox(session_state, "style_level3_edit",
                        StyleLevel3Options(vm, style_level1, style_level2),
                        Get(facet2, "level_3", <<>>)),
          edit_gender |-> Selectbox(session_state, "edit_gender",
                                    get_valid_options(vm, "gender", EmptyDict),
                                    Get(Get(metadata, "faceted", EmptyDict), "gender", <<>>)),
          edit_brand |-> TextInput(session_state, "edit_brand", Get(flat, "brand", <<>>)),
          edit_size |-> Flat("edit_size", "size"),
          edit_color |-> Flat("edit_color", "color"),
          edit_material |-> Flat("edit_material", "material"),
          edit_pattern |-> Flat("edit_pattern", "pattern"),
          edit_title |-> TextInput(session_state, "edit_title", Get(desc, "title", <<>>)),
          edit_short_desc |-> TextInput(session_state, "edit_short_desc",
                                        Get(desc, "short_description", <<>>)),
          edit_long_desc |-> TextInput(session_state, "edit_long_desc",
                                       Get(desc, "long_description", <<>>)),
          bullet_inputs |-> bullet_inputs,
          bullet_points |-> SelectSeq(bullet_inputs, Truthy) ]

\* all([level_1, level_2, level_3])
AllTruthy(level_1, level_2, level_3) == Truthy(level_1) /\ Truthy(level_2) /\ Truthy(level_3)

\* lines 509-521: a facet as update_metadata_from_ui writes it
EditedFacet(level_1, level_2, level_3) ==
    [ level_1 |-> level_1,
      level_2 |-> level_2,
      level_3 |-> level_3,
      full_path |-> IF AllTruthy(level_1, level_2, level_3)
                    THEN FullPath(level_1, level_2, level_3) ELSE <<>> ]

\* the bullets of the edit set added to those the record holds
UpdateDescriptiveAppending(descriptive, session_state) ==
    Update(descriptive,
           [ title |-> Get(session_state, "edit_title", <<>>),
             short_description |-> Get(session_state, "edit_short_desc", <<>>),
             long_description |-> Get(session_state, "edit_long_desc", <<>>),
             bullet_points |-> Get(descriptive, "bullet_points", <<>>)
                               \o Get(session_state, "bullet_points", <<>>) ])

\* lines 536-542: metadata['descriptive'].update({...})
UpdateDescriptive(descriptive, session_state) ==
    Update(descriptive,
           [ title |-> Get(session_state, "edit_title", <<>>),
             short_description |-> Get(session_state, "edit_short_desc", <<>>),
             long_description |-> Get(session_state, "edit_long_desc", <<>>),
             bullet_points |-> Get(session_state, "bullet_points", <<>>) ])

\* the widget values are read from st.session_state, here an argument
update_metadata_from_ui(metadata, models, session_state) ==
    LET Widget(key) == Get(session_state, key, <<>>)
        facet1 == EditedFacet(Widget("item_type_edit"), Widget("category_edit"),
                              Widget("product_type_edit"))
        facet2 == EditedFacet(Widget("style_level1_edit"), Widget("style_level2_edit"),
                              Widget("style_level3_edit"))
        faceted_metadata ==
            [ metadata.faceted.faceted_metadata EXCEPT
                !.hierarchical_facets =
                    Update(@, [facet_1_item_type |-> facet1, facet_2_style_usage |-> facet2]),
                !.flat_facets =
                    Update(@, [ brand |-> Widget("edit_brand"),
                                size |-> Widget("edit_size"),
                                color |-> Widget("edit_color"),
                                material |-> Widget("edit_material"),
                                pattern |-> Widget("edit_pattern") ]) ]
        faceted == Update(metadata.faceted,
                          [ faceted_metadata |-> faceted_metadata,
                            gender |-> Widget("edit_gender"),
                            item_type |-> Widget("item_type_edit") ])
        descriptive == UpdateDescriptive(metadata.descriptive, session_state)
    IN  Update(metadata,
               [ faceted |-> faceted,
                 descriptive |-> descriptive,
                 validation_results |->
                     ValidationResults(models.vocabulary_manager, Widget("edit_gender"),
                                       Widget("item_type_edit"), Widget("edit_color"),
                                       Widget("edit_material"), facet1),
                 updated_at |-> Now ])

\* lines 449-456: every entry of the stored validation map is valid
AllValid(metadata) ==
    LET validation == Get(metadata, "validation_results", EmptyDict)
    IN  \A field \in DOMAIN validation : validation[field][1]

\* lines 37-64: the components initialize_models builds, both vocabulary
\* components reading the same vocabulary file
initialize_models(file) ==
    [ vocabulary_manager |-> VocabularyManager_init(file),
      faceted_generator |-> FacetedMetadataGenerator_init(file) ]

\* ------------------------------------------------------------------------
\* models/bulk_processor.py
\* ------------------------------------------------------------------------

\* os.path.join(images_dir, image_file)
path_join(directory, file) == directory \o <<"/">> \o file

\* lines 82-95: the image path of a row, None when there is none, and the
\* exception raised when images_dir is given and the file is in neither place
ImagePath(csv_row, images_dir, existing) ==
    LET image_file == Get(csv_row, "Image", <<>>)
    IN  IF Truthy(images_dir) /\ Truthy(image_file)
        THEN IF path_join(images_dir, image_file) \in existing
             THEN [path |-> path_join(images_dir, image_file)]
             ELSE IF image_file \in existing
             THEN [path |-> image_file]
             ELSE [raised |-> <<"I","m","a","g","e"," ","n","o","t"," ","f","o","u","n","d",":"," ">> \o image_file]
        ELSE IF Truthy(image_file) /\ image_file \in existing
        THEN [path |-> image_file]
        ELSE [path |-> None]

\* lines 71-163: existing is the set of paths os.path.exists finds and
\* image_analysis what analyze_image returns when it is called.  The result
\* is the metadata returned or the message of the exception raised, with
\* the collaborators called on the way.  The classification, technical and
\* discovery sections, which the legacy classifier, attribute extractor and
\* keyword generator compute from the same inputs, are left out.
process_single_product(self, csv_row, images_dir, existing, image_analysis) ==
    LET image_path == ImagePath(csv_row, images_dir, existing)
    IN  IF "raised" \in DOMAIN image_path
        THEN [raised |-> image_path.raised, called |-> {}]
        ELSE LET analysed == Truthy(image_path.path) /\ image_path.path \in existing
                 image_attributes == IF analysed
                                     THEN Get(image_analysis, "attributes", EmptyDict)
                                     ELSE EmptyDict
                 faceted_metadata ==
                     generate_faceted_metadata(self.faceted_generator, image_attributes,
                                               EmptyDict, csv_row)
                 product_info == [ brand |-> Get(csv_row, "Brand", <<>>),
                                   gender |-> Get(csv_row, "Gender", <<>>) ]
                 title == IF Truthy(Get(csv_row, "ProductTitle", <<>>))
                          THEN csv_row["ProductTitle"]
                          ELSE generate_title(product_info, image_attributes)
                 description == generate_description(product_info, image_attributes)
             IN  [ metadata |->
                       [ faceted |-> faceted_metadata,
                         descriptive |->
                             [ title |-> title,
                               short_description |-> ShortDescription(description),
                               long_description |-> description,
                               bullet_points |->
                                   generate_bullet_points(product_info, image_attributes) ],
                         source |-> [ product_id |-> Get(csv_row, "ProductId", <<>>),
                                      image_file |-> Get(csv_row, "Image", <<>>),
                                      image_url |-> Get(csv_row, "ImageURL", <<>>) ] ],
                   called |-> (IF analysed THEN {"analyze_image"} ELSE {})
                              \cup {"generate_faceted_metadata", "generate_description",
                                    "generate_bullet_points"}
                              \cup (IF Truthy(Get(csv_row, "ProductTitle", <<>>))
                                    THEN {} ELSE {"generate_title"}) ]

\* the outcome of a row tagged with the index of the loop as it stands
ProcessRowZeroBased(outcomes, index, row, processed) ==
    Append(outcomes,
           IF "raised" \in DOMAIN processed
           THEN [error |-> processed.raised, csv_row_index |-> index, csv_data |-> row]
           ELSE Update(processed.metadata, [csv_row_index |-> index, csv_data |-> row]))

\* lines 56-67: the body of the loop of process_csv, given what
\* process_single_product did with the row
ProcessRow(outcomes, index, row, processed) ==
    Append(outcomes,
           IF "raised" \in DOMAIN processed
           THEN [error |-> processed.raised, csv_row_index |-> index + 1, csv_data |-> row]
           ELSE Update(processed.metadata, [csv_row_index |-> index + 1, csv_data |-> row]))

\* ------------------------------------------------------------------------
\* The single product page as a state machine
\* ------------------------------------------------------------------------

VARIABLES
    app_models,         \* the components of initialize_models (models in main)
    current_metadata,   \* st.session_state.current_metadata
    widget_state,       \* the widget values st.session_state holds by key
    generation,         \* image_attributes and product_info of the generating run
    edits,              \* widget changes made since the record was generated
    generator,          \* a FacetedMetadataGenerator
    bundle,             \* the arguments of a call of generate_faceted_metadata
    generated,          \* what the call returned
    csv_rows,           \* the rows csv.DictReader reads from csv_path
    image_dir,          \* process_csv's images_dir
    row_limit,          \* process_csv's limit
    idx,                \* rows the loop of process_csv has taken
    results,            \* process_csv's results
    attempts,           \* per row taken: the collaborators called and the analysis returned
    returned,           \* process_csv has returned results
    vocabulary_store,   \* a VocabularyManager, or the exception its construction raised
    last_call,          \* the last call made on the VocabularyManager and what it returned
    adds,               \* calls of add_custom_term made on the VocabularyManager
    scored              \* the last call made on the ConfidenceScorer and what it returned

review_vars == <<app_models, current_metadata, widget_state, generation, edits>>

generate_vars == <<generator, bundle, generated>>

batch_vars == <<csv_rows, image_dir, row_limit, idx, results, attempts, returned>>

vocabulary_vars == <<vocabulary_store, last_call, adds>>

score_vars == <<scored>>

vars == <<review_vars, generate_vars, batch_vars, vocabulary_vars, score_vars>>

\* widget changes the reviewer makes on one record
MaxEdits == 1

\* the values tried on a selectbox: the empty entry, the first and the last option
Offered(options) ==
    {<<>>} \cup {options[i] : i \in {1, Len(options)} \cap DOMAIN options}

\* what analyze_image returns for the uploaded image: a red cotton dress,
\* or the result of a failed call
ReviewAnalyses ==
    { AnalysisOf(ParsedAttributes(<<Candidate(<<"d","r","e","s","s">>, 95)>>, <<Candidate(<<"R","e","d">>, 90)>>,
                                  <<Candidate(<<"C","o","t","t","o","n">>, 90)>>, <<>>, <<>>)),
      AnalysisError(<<"t","i","m","e","o","u","t">>) }

\* the form of the page: the upload and the three selectboxes of lines
\* 93-112, each left empty or set to its first option
GenerateInputs(vocabulary_manager) ==
    LET FirstOption(field) ==
            LET options == get_valid_options(vocabulary_manager, field, EmptyDict)
            IN  {<<>>} \cup {options[i] : i \in {1} \cap DOMAIN options}
    IN  [ uploaded_file : BOOLEAN,
          image_analysis : ReviewAnalyses,
          brand : FirstOption("brand"),
          gender : FirstOption("gender"),
          size : FirstOption("size") ]

\* lines 115-121: the button returns early without an image, a brand or a gender
Accepted(input) == input.uploaded_file /\ Truthy(input.brand) /\ Truthy(input.gender)

\* the forms the page can submit, by the components it is submitted to
Forms ==
    { [ models |-> initialize_models(file),
        inputs |-> GenerateInputs(VocabularyManager_init(file)) ] : file \in VocabularyFiles }

\* lines 133-218: the record an accepted form produces and the interface
\* drawn for it, computed once
GeneratedRecords ==
    { [ models |-> page.models,
        inputs |-> page.inputs,
        records |->
            { LET metadata == single_product_page(page.models, input.image_analysis,
                                                  input.brand, input.gender, input.size)
              IN  [ input |-> input,
                    metadata |-> metadata,
                    widgets |-> display_review_interface(page.models, metadata, EmptyDict) ] :
              input \in {i \in page.inputs : Accepted(i)} } ] :
      page \in Forms }

\* a record is under review: if st.session_state.current_metadata
HasRecord == DOMAIN current_metadata # {}

\* no call of generate_faceted_metadata is followed
NoResolution == generator = EmptyDict /\ bundle = EmptyDict /\ generated = EmptyDict

\* no batch is run
NoBatch ==
    /\ csv_rows = <<>> /\ image_dir = <<>> /\ row_limit = <<>>
    /\ idx = 0 /\ results = <<>> /\ attempts = <<>> /\ returned = FALSE

\* no VocabularyManager is followed on its own
NoVocabulary == vocabulary_store = EmptyDict /\ last_call = EmptyDict /\ adds = 0

NoScore == scored = EmptyDict

\* no record is on the single product page
NoReview ==
    /\ app_models = EmptyDict /\ current_metadata = EmptyDict /\ widget_state = EmptyDict
    /\ generation = EmptyDict /\ edits = 0

\* lines 29-34 and 71: the page before anything is generated
Init ==
    /\ app_models \in {initialize_models(file) : file \in VocabularyFiles}
    /\ current_metadata = EmptyDict
    /\ widget_state = EmptyDict
    /\ generation = EmptyDict
    /\ edits = 0
    /\ NoResolution
    /\ NoBatch
    /\ NoVocabulary
    /\ NoScore

\* lines 114-218: the Generate Metadata button
Generate ==
    \E page \in GeneratedRecords :
        /\ page.models = app_models
        /\ \E input \in page.inputs :
              IF ~Accepted(input)
              THEN UNCHANGED vars
              ELSE \E entry \in page.records :
                      /\ entry.input = input
                      /\ current_metadata' = entry.metadata
                      /\ widget_state' = entry.widgets
                      /\ generation' =
                             [ image_attributes |->
                                   Get(input.image_analysis, "attributes", EmptyDict),
                               product_info |-> [ brand |-> input.brand,
                                                  gender |-> input.gender,
                                                  size |-> input.size ] ]
                      /\ edits' = 0
                      /\ UNCHANGED <<app_models, generate_vars, batch_vars, vocabulary_vars, score_vars>>

\* the changes the reviewer can make to one widget of the interface
WidgetChoices ==
    LET vm == app_models.vocabulary_manager
        Flat(key, field) == {key} \X Offered(get_valid_options(vm, field, EmptyDict))
    IN  ({"item_type_edit"} \X {<<>>, <<"A","p","p","a","r","e","l">>, <<"F","o","o","t","w","e","a","r">>})
        \cup ({"category_edit"} \X
                 Offered(CategoryOptions(vm, widget_state.item_type_edit)))
        \cup ({"product_type_edit"} \X
                 Offered(ProductTypeOptions(vm, widget_state.item_type_edit,
                                            widget_state.category_edit)))
        \cup ({"style_level1_edit"} \X Offered(DictKeys(StyleHierarchy(vm))))
        \cup ({"style_level2_edit"} \X
                 Offered(StyleLevel2Options(vm, widget_state.style_level1_edit)))
        \cup ({"style_level3_edit"} \X
                 Offered(StyleLevel3Options(vm, widget_state.style_level1_edit,
                                            widget_state.style_level2_edit)))
        \cup Flat("edit_gender", "gender") \cup Flat("edit_size", "size")
        \cup Flat("edit_color", "color") \cup Flat("edit_material", "material")
        \cup Flat("edit_pattern", "pattern")
        \cup ({"edit_brand"} \X {<<>>, <<"A","c","m","e">>})
        \cup ({"edit_title", "edit_short_desc", "edit_long_desc"} \X {<<>>})
        \cup { <<"bullet_inputs", [widget_state.bullet_inputs EXCEPT ![i] = <<>>]>> :
                 i \in {1} \cap DOMAIN widget_state.bullet_inputs }

\* the reviewer changes one widget; the script runs again and draws the
\* interface
EditWidget ==
    /\ HasRecord
    /\ edits < MaxEdits
    /\ \E choice \in WidgetChoices :
          /\ widget_state[choice[1]] # choice[2]
          /\ widget_state' =
                 display_review_interface(app_models, current_metadata,
                                          [widget_state EXCEPT ![choice[1]] = choice[2]])
    /\ edits' = edits + 1
    /\ UNCHANGED <<app_models, current_metadata, generation, generate_vars, batch_vars, vocabulary_vars, score_vars>>

\* lines 437-442: the Save Changes button
SaveChanges ==
    /\ HasRecord
    /\ current_metadata' = update_metadata_from_ui(current_metadata, app_models, widget_state)
    /\ widget_state' = display_review_interface(app_models, current_metadata', widget_state)
    /\ UNCHANGED <<app_models, generation, edits, generate_vars, batch_vars, vocabulary_vars, score_vars>>

\* lines 466-482: the Approve button, which cannot be pressed while disabled
Approve ==
    /\ HasRecord
    /\ AllValid(current_metadata)
    /\ current_metadata.status # "approved"
    /\ current_metadata' =
           Update(update_metadata_from_ui(current_metadata, app_models, widget_state),
                  [status |-> "approved", approved_at |-> Now])
    /\ widget_state' = display_review_interface(app_models, current_metadata', widget_state)
    /\ UNCHANGED <<app_models, generation, edits, generate_vars, batch_vars, vocabulary_vars, score_vars>>

Next == Generate \/ EditWidget \/ SaveChanges \/ Approve

Spec == Init /\ [][Next]_vars

\* ------------------------------------------------------------------------
\* One call of generate_faceted_metadata
\* ------------------------------------------------------------------------

\* what the image analysis hands over: nothing, a red cotton dress, striped
\* sneakers, or an analysis that recognised nothing
BundleImageAttributes ==
    { EmptyDict,
      ParsedAttributes(<<Candidate(<<"d","r","e","s","s">>, 95)>>, <<Candidate(<<"R","e","d">>, 90)>>,
                       <<Candidate(<<"C","o","t","t","o","n">>, 90)>>, <<>>, <<>>),
      ParsedAttributes(<<Candidate(<<"s","n","e","a","k","e","r","s">>, 95)>>, <<>>, <<>>,
                       <<Candidate(<<"s","t","r","i","p","e","d">>, 90)>>, <<Candidate(<<"c","a","s","u","a","l">>, 90)>>),
      ParsedAttributes(<<>>, <<>>, <<>>, <<>>, <<>>),
      ParsedAttributes(<<Candidate(<<"j","a","c","k","e","t">>, 80), Candidate(<<"R","u","n","n","i","n","g"," ","S","h","o","e","s">>, 60)>>,
                       <<>>, <<>>, <<>>, <<>>),
      ParsedAttributes(<<Candidate(<<"F","e","m","a","l","e"," ","m","o","d","e","l"," ","i","n"," ","a"," ","g","a","r","m","e","n","t">>, 70)>>,
                       <<>>, <<>>, <<>>, <<>>) }

\* the form of the single product page, with and without a size, or None
BundleProductInfo ==
    { EmptyDict,
      [brand |-> <<"N","i","k","e">>, gender |-> <<"M","e","n">>, size |-> <<>>],
      [brand |-> <<"Z","a","r","a">>, gender |-> <<"W","o","m","e","n">>, size |-> <<"M">>],
      [brand |-> <<>>, gender |-> <<"F","e","m","a","l","e">>, size |-> <<>>] }

\* a row of the batch file: None, a row with every column filled, a row
\* with empty columns, and a row of a category the vocabulary may lack
BundleCsvData ==
    { EmptyDict,
      [ ProductId |-> <<"1">>, Gender |-> <<"B","o","y","s">>, Brand |-> <<"P","u","m","a">>, Category |-> <<"F","o","o","t","w","e","a","r">>,
        SubCategory |-> <<"S","h","o","e","s">>, ProductType |-> <<"S","p","o","r","t","s"," ","S","h","o","e","s">>, Colour |-> <<"B","l","u","e">>,
        Material |-> <<"L","e","a","t","h","e","r">>, Pattern |-> <<"S","o","l","i","d">>, Size |-> <<"S">>, Usage |-> <<"S","p","o","r","t","s">>,
        ProductTitle |-> <<"R","u","n","n","e","r">>, Image |-> <<"a",".","j","p","g">>, ImageURL |-> <<>> ],
      [ ProductId |-> <<"2">>, Gender |-> <<>>, Brand |-> <<>>, Category |-> <<>>,
        SubCategory |-> <<>>, ProductType |-> <<>>, Colour |-> <<>>,
        Material |-> <<>>, Pattern |-> <<>>, Size |-> <<>>, Usage |-> <<>>,
        ProductTitle |-> <<>>, Image |-> <<>>, ImageURL |-> <<>> ],
      [ ProductId |-> <<"3">>, Gender |-> <<"W","o","m","e","n">>, Brand |-> <<"Z","a","r","a">>, Category |-> <<"A","p","p","a","r","e","l">>,
        SubCategory |-> <<"S","a","r","e","e">>, ProductType |-> <<"S","a","r","e","e","s">>, Colour |-> <<"R","e","d">>,
        Material |-> <<"S","i","l","k">>, Pattern |-> <<"P","r","i","n","t","e","d">>, Size |-> <<"M">>, Usage |-> <<"E","t","h","n","i","c">>,
        ProductTitle |-> <<>>, Image |-> <<>>, ImageURL |-> <<"h","t","t","p",":","/","/","x","/","3",".","j","p","g">> ],
      [ ProductId |-> <<"4">>, Gender |-> <<>>, Brand |-> <<"B","a","t","a">>, Category |-> <<"f","o","o","t","w","e","a","r">>,
        SubCategory |-> <<>>, ProductType |-> <<>>, Colour |-> <<>>,
        Material |-> <<>>, Pattern |-> <<>>, Size |-> <<"8">>, Usage |-> <<"p","a","r","t","y"," ","w","e","a","r">>,
        ProductTitle |-> <<>>, Image |-> <<"a",".","j","p","g">>, ImageURL |-> <<>> ] }

\* the generator as constructed over each vocabulary file
Generators == {FacetedMetadataGenerator_init(file) : file \in VocabularyFiles}

\* the arguments of one call
Bundles == [ image_attributes : BundleImageAttributes,
             product_info : BundleProductInfo,
             csv_data : BundleCsvData ]

\* generate_faceted_metadata applied to every bundle by every generator,
\* computed once
Resolutions ==
    { [ by |-> constructed, arguments |-> given,
        returns |-> generate_faceted_metadata(constructed, given.image_attributes,
                                              given.product_info, given.csv_data) ] :
      constructed \in Generators, given \in Bundles }

InitGenerate ==
    /\ generator \in Generators
    /\ bundle \in Bundles
    /\ generated = EmptyDict
    /\ NoReview
    /\ NoBatch
    /\ NoVocabulary
    /\ NoScore

\* faceted_metadata.py lines 54-91
Resolve ==
    \E call \in Resolutions :
        /\ generated = EmptyDict
        /\ call.by = generator
        /\ call.arguments = bundle
        /\ generated' = call.returns
        /\ UNCHANGED <<generator, bundle, review_vars, batch_vars, vocabulary_vars, score_vars>>

NextGenerate == Resolve

SpecGenerate == InitGenerate /\ [][NextGenerate]_vars

\* ------------------------------------------------------------------------
\* One run of process_csv
\* ------------------------------------------------------------------------

\* rows the batch file holds
MaxRows == 2

\* the paths os.path.exists finds: a.jpg in the images directory and in
\* the working directory, b.jpg nowhere
ExistingFiles == {<<"i","m","a","g","e","s","/","a",".","j","p","g">>, <<"a",".","j","p","g">>}

BatchRow(product_id, gender, brand, image, image_url, title) ==
    [ ProductId |-> product_id, Gender |-> gender, Brand |-> brand, Image |-> image,
      ImageURL |-> image_url, ProductTitle |-> title ]

\* a complete row, a row without gender, brand and image, a row whose
\* image file does not exist, a row with a URL instead of a file, and a
\* row that carries only Gender, Brand and Image
BatchRows ==
    { BatchRow(<<"1">>, <<"M","e","n">>, <<"N","i","k","e">>, <<"a",".","j","p","g">>, <<>>, <<"T","e","e">>),
      BatchRow(<<"2">>, <<>>, <<>>, <<>>, <<>>, <<>>),
      BatchRow(<<"3">>, <<"W","o","m","e","n">>, <<"Z","a","r","a">>, <<"b",".","j","p","g">>, <<>>, <<>>),
      BatchRow(<<"4">>, <<"W","o","m","e","n">>, <<>>, <<>>, <<"h","t","t","p",":","/","/","x","/","4",".","j","p","g">>, <<>>),
      BatchRow(<<>>, <<"W","o","m","e","n">>, <<"Z","a","r","a">>, <<"a",".","j","p","g">>, <<>>, <<>>) }

\* what analyze_image returns when it is called on a.jpg
BatchAnalyses ==
    { AnalysisOf(ParsedAttributes(<<Candidate(<<"d","r","e","s","s">>, 95)>>, <<Candidate(<<"R","e","d">>, 90)>>,
                                  <<>>, <<>>, <<>>)),
      AnalysisError(<<"C","l","a","u","d","e"," ","A","P","I"," ","e","r","r","o","r",":"," ","o","v","e","r","l","o","a","d","e","d">>) }

RECURSIVE RowsUpTo(_)
RowsUpTo(n) ==
    IF n = 0 THEN {<<>>}
    ELSE RowsUpTo(n - 1) \cup {Append(rows, row) : rows \in RowsUpTo(n - 1), row \in BatchRows}

\* the images directory given to process_csv: None or a directory
ImageDirs == {<<>>, <<"i","m","a","g","e","s">>}

\* process_single_product applied to every row under every images
\* directory, generator and answer of analyze_image, computed once
ProcessedRows ==
    { [ by |-> constructed, row |-> csv_row, images_dir |-> directory,
        image_analysis |-> answer,
        processed |-> process_single_product([faceted_generator |-> constructed], csv_row,
                                             directory, ExistingFiles, answer) ] :
      constructed \in Generators, csv_row \in BatchRows, directory \in ImageDirs,
      answer \in BatchAnalyses }

InitBatch ==
    /\ generator \in Generators
    /\ csv_rows \in RowsUpTo(MaxRows)
    /\ image_dir \in ImageDirs
    /\ row_limit \in {<<>>} \cup {<<n>> : n \in 1..MaxRows}
    /\ idx = 0
    /\ results = <<>>
    /\ attempts = <<>>
    /\ returned = FALSE
    /\ bundle = EmptyDict /\ generated = EmptyDict
    /\ NoReview
    /\ NoVocabulary
    /\ NoScore

\* line 53: if limit and idx >= limit
LimitReached == row_limit # <<>> /\ row_limit[1] # 0 /\ idx >= row_limit[1]

\* lines 52-67: the loop takes the next row
TakeRow ==
    \E call \in ProcessedRows :
        /\ ~returned
        /\ idx < Len(csv_rows)
        /\ ~LimitReached
        /\ call.by = generator
        /\ call.row = csv_rows[idx + 1]
        /\ call.images_dir = image_dir
        /\ results' = ProcessRow(results, idx, call.row, call.processed)
        /\ attempts' =
               Append(attempts,
                      [ called |-> call.processed.called,
                        analysis |-> IF "analyze_image" \in call.processed.called
                                     THEN call.image_analysis ELSE EmptyDict ])
        /\ idx' = idx + 1
        /\ UNCHANGED <<csv_rows, image_dir, row_limit, returned, generator, bundle, generated,
                       review_vars, vocabulary_vars, score_vars>>

\* lines 52-54 and 69: the rows are exhausted or the limit is reached
ReturnResults ==
    /\ ~returned
    /\ idx >= Len(csv_rows) \/ LimitReached
    /\ returned' = TRUE
    /\ UNCHANGED <<csv_rows, image_dir, row_limit, idx, results, attempts, generator, bundle,
                   generated, review_vars, vocabulary_vars, score_vars>>

NextBatch == TakeRow \/ ReturnResults

SpecBatch == InitBatch /\ [][NextBatch]_vars

\* ------------------------------------------------------------------------
\* One VocabularyManager: its construction and the validations asked of it
\* ------------------------------------------------------------------------

\* what vocabulary_path may name: no file, a well-formed file, a malformed one
StoredFiles == VocabularyFiles \cup {MalformedVocabularyFile}

\* __init__ returned an instance
Constructed == "vocabulary" \in DOMAIN vocabulary_store

\* no question has been asked of the instance yet; validate and
\* validate_hierarchy read the instance and change nothing, so one question
\* per instance is followed
Unasked == Constructed /\ last_call.operation = "__init__"

\* the fields validate is asked about; season names no vocabulary list
Fields ==
    { "gender", "item_type", "size", "category", "product_type", "color", "material",
      "pattern", "usage", "brand", "season" }

\* the context arguments: None, an item type, an item type with a category,
\* a category alone, and an item type the sparse file gives no categories
Contexts ==
    { EmptyDict,
      [item_type |-> <<"A","p","p","a","r","e","l">>],
      [item_type |-> <<"A","p","p","a","r","e","l">>, category |-> <<"T","o","p","w","e","a","r">>],
      [category |-> <<"T","o","p","w","e","a","r">>],
      [item_type |-> <<"F","o","o","t","w","e","a","r">>] }

\* the values typed into validate
TypedValues ==
    { <<>>, <<" "," ">>, <<"m","e","n">>, <<" ","M","E","N"," ">>, <<"M","e","n","s">>, <<"r","e","d">>, <<"N","A","V","Y"," "," ","B","L","U","E">>, <<"b","u","r","g","u","n","d","y">>, <<"T","a","r","t","a","n","s">>,
      <<"c","h","e","c","k","e","d">>, <<"t","o","p","w","e","a","r">>, <<"t","s","h","i","r","t">>, <<"a","s","i","c","s">>, <<"n","e","o","n"," "," ","g","r","e","e","n">> }

str_upper(s) == [i \in 1..Len(s) |-> char_upper(s[i])]

\* the term with every blank doubled, a blank before it and two behind
RECURSIVE Widened(_)
Widened(s) ==
    IF s = <<>> THEN <<" "," ">>
    ELSE IF Head(s) = " " THEN <<" "," ">> \o Widened(Tail(s))
    ELSE <<Head(s)>> \o Widened(Tail(s))

\* a term as written in the list, in lower case, in upper case, and with
\* extra whitespace around and inside
Variants(term) == {term, str_lower(term), str_upper(term), <<" ">> \o Widened(term)}

\* the field and context pairs asked about
Questions ==
    {<<field, EmptyDict>> : field \in Fields}
        \cup {<<field, context>> : field \in {"category", "product_type"}, context \in Contexts}

\* the calls of validate made on an instance: the typed values, and the
\* variants of every term of the list the question resolves to
ValidateCalls(self) ==
    { [field |-> question[1], context |-> question[2], value |-> typed, term |-> None] :
      question \in Questions, typed \in TypedValues }
    \cup
    UNION { UNION { { [ field |-> question[1], context |-> question[2], value |-> variant,
                        term |-> _get_vocabulary_list(self, question[1], question[2])[i] ] :
                      variant \in
                          Variants(_get_vocabulary_list(self, question[1], question[2])[i]) } :
                    i \in 1..Len(_get_vocabulary_list(self, question[1], question[2])) } :
            question \in Questions }

\* the arguments validate_hierarchy is called with
HierarchyCalls ==
    [ item_type : {<<"A","p","p","a","r","e","l">>, <<"F","o","o","t","w","e","a","r">>, <<"T","o","y","s">>, <<>>},
      category : {<<"T","o","p","w","e","a","r">>, <<"S","h","o","e","s">>, <<"D","r","e","s","s">>, <<"H","a","t","s">>, <<>>},
      product_type : {<<>>, <<"T","s","h","i","r","t","s">>, <<"C","a","s","u","a","l"," ","S","h","o","e","s">>, <<"J","e","a","n","s">>} ]

InitVocabulary ==
    /\ NoVocabulary
    /\ NoScore
    /\ NoReview
    /\ NoResolution
    /\ NoBatch

\* vocabulary_manager.py lines 8-11: VocabularyManager(vocabulary_path)
Construct ==
    \E file \in StoredFiles :
        /\ vocabulary_store = EmptyDict
        /\ vocabulary_store' = VocabularyManager_init(file)
        /\ last_call' = [operation |-> "__init__", file |-> file]
        /\ UNCHANGED <<adds, review_vars, generate_vars, batch_vars, score_vars>>

\* vocabulary_manager.py lines 58-83
Validate ==
    \E call \in IF Unasked THEN ValidateCalls(vocabulary_store) ELSE {} :
        /\ Unasked
        /\ last_call' = [ operation |-> "validate", field |-> call.field,
                          value |-> call.value, context |-> call.context, term |-> call.term,
                          returns |-> validate(vocabulary_store, call.field, call.value,
                                               call.context) ]
        /\ UNCHANGED <<vocabulary_store, adds, review_vars, generate_vars, batch_vars, score_vars>>

\* vocabulary_manager.py lines 145-157
ValidateHierarchy ==
    \E call \in HierarchyCalls :
        /\ Unasked
        /\ last_call' = [ operation |-> "validate_hierarchy", item_type |-> call.item_type,
                          category |-> call.category, product_type |-> call.product_type,
                          returns |-> validate_hierarchy(vocabulary_store, call.item_type,
                                                         call.category, call.product_type) ]
        /\ UNCHANGED <<vocabulary_store, adds, review_vars, generate_vars, batch_vars, score_vars>>

NextVocabulary == Construct \/ Validate \/ ValidateHierarchy

SpecVocabulary == InitVocabulary /\ [][NextVocabulary]_vars

\* ------------------------------------------------------------------------
\* One VocabularyManager and the custom terms added to it
\* ------------------------------------------------------------------------

\* calls of add_custom_term followed on one instance
MaxAdds == 2

\* the terms the reviewer adds, some of them the same term typed differently
CustomValues == {<<"n","e","o","n">>, <<"N","E","O","N">>, <<" ","N","e","o","n"," ">>, <<"n","e","o","n"," "," ","g","r","e","e","n">>, <<"N","e","o","n"," ","G","r","e","e","n">>, <<>>}

InitCustomTerms ==
    /\ vocabulary_store \in {VocabularyManager_init(file) : file \in VocabularyFiles}
    /\ last_call = EmptyDict
    /\ adds = 0
    /\ NoReview
    /\ NoResolution
    /\ NoBatch
    /\ NoScore

\* vocabulary_manager.py lines 131-140
AddCustomTerm ==
    \E field \in {"color", "brand"}, value \in CustomValues :
        /\ adds < MaxAdds
        /\ vocabulary_store' = add_custom_term(vocabulary_store, field, value)
        /\ last_call' = [operation |-> "add_custom_term", field |-> field, value |-> value]
        /\ adds' = adds + 1
        /\ UNCHANGED <<review_vars, generate_vars, batch_vars, score_vars>>

NextCustomTerms == AddCustomTerm

SpecCustomTerms == InitCustomTerms /\ [][NextCustomTerms]_vars

\* ------------------------------------------------------------------------
\* Calls on the ConfidenceScorer, which keeps no state between them
\* ------------------------------------------------------------------------

ScoredFields == {"gender", "item_type", "size", "color", "material", "title",
                 "description", "category", "brand"}

\* the four sources calculate_confidence names and one it does not
ScoredSources == {"manual", "csv", "image", "generated", "api"}

\* image_confidence: None, or a confidence of the analysis in hundredths
ImageConfidences == {<<>>} \cup {<<c>> : c \in {0, 20, 50, 90, 100}}

\* vocabulary_match: None, True or False
VocabularyMatches == {<<>>, <<TRUE>>, <<FALSE>>}

\* calculate_confidence on every combination of its arguments, computed once
Confidences ==
    { [ operation |-> "calculate_confidence", field |-> field, source |-> source,
        image_confidence |-> image_confidence, vocabulary_match |-> vocabulary_match,
        returns |-> calculate_confidence(field, <<"v">>, source, image_confidence,
                                         vocabulary_match) ] :
      field \in ScoredFields, source \in ScoredSources,
      image_confidence \in ImageConfidences, vocabulary_match \in VocabularyMatches }

\* the records score_metadata is given: what generate_faceted_metadata
\* returns for the bundles without a row or with a row of empty columns,
\* and a record without any field
ScoredBundles ==
    {given \in Bundles : Get(given.csv_data, "Gender", <<>>) = <<>>
                          /\ Get(given.csv_data, "Category", <<>>) = <<>>}

\* score_metadata on every such record with the VocabularyManager of the
\* same vocabulary file, computed once
Scorings ==
    UNION { { [ operation |-> "score_metadata", metadata |-> [faceted |-> call.returns],
                image_attributes |-> call.arguments.image_attributes,
                product_info |-> call.arguments.product_info,
                returns |-> score_metadata([faceted |-> call.returns],
                                           call.arguments.image_attributes,
                                           VocabularyManager_init(file),
                                           call.arguments.product_info) ] :
              call \in {c \in Resolutions : /\ c.arguments \in ScoredBundles
                                             /\ c.by = FacetedMetadataGenerator_init(file)} } :
            file \in VocabularyFiles }
    \cup
    { [ operation |-> "score_metadata", metadata |-> EmptyDict,
        image_attributes |-> EmptyDict, product_info |-> EmptyDict,
        returns |-> score_metadata(EmptyDict, EmptyDict, VocabularyManager_init(NoFile),
                                   EmptyDict) ] }

\* an entry of scores: absent, or one of the confidences
ScoreEntries(field, confidences) ==
    {EmptyDict} \cup {field :> confidence : confidence \in confidences}

\* the scores requires_review is given: with and without overall, which is
\* a fraction, and with critical and other fields below, at and above 0.7
ReviewedScores ==
    { overall @@ item_type @@ gender @@ category @@ product_type @@ color :
      overall \in ScoreEntries("overall", {<<69, 1>>, <<70, 1>>, <<209, 3>>, <<45, 1>>}),
      item_type \in ScoreEntries("item_type", {69, 70}),
      gender \in ScoreEntries("gender", {70, 100}),
      category \in ScoreEntries("category", {50, 70}),
      product_type \in ScoreEntries("product_type", {49, 71}),
      color \in ScoreEntries("color", {10}) }

Thresholds == {50, 70}

\* requires_review on every such scores and threshold, computed once
Reviews ==
    { [ operation |-> "requires_review", scores |-> scores, threshold |-> threshold,
        returns |-> requires_review(scores, threshold) ] :
      scores \in ReviewedScores, threshold \in Thresholds }

InitScorer ==
    /\ NoScore
    /\ NoReview
    /\ NoResolution
    /\ NoBatch
    /\ NoVocabulary

\* confidence_scorer.py lines 21-70
CalculateConfidence ==
    \E call \in Confidences :
        /\ scored = EmptyDict
        /\ scored' = call
        /\ UNCHANGED <<review_vars, generate_vars, batch_vars, vocabulary_vars>>

\* confidence_scorer.py lines 72-179
ScoreMetadata ==
    \E call \in Scorings :
        /\ scored = EmptyDict
        /\ scored' = call
        /\ UNCHANGED <<review_vars, generate_vars, batch_vars, vocabulary_vars>>

\* confidence_scorer.py lines 181-204
RequiresReview ==
    \E call \in Reviews :
        /\ scored = EmptyDict
        /\ scored' = call
        /\ UNCHANGED <<review_vars, generate_vars, batch_vars, vocabulary_vars>>

NextScorer == CalculateConfidence \/ ScoreMetadata \/ RequiresReview

SpecScorer == InitScorer /\ [][NextScorer]_vars

\* ------------------------------------------------------------------------
\* Properties of the review of one record
\* ------------------------------------------------------------------------

Hierarchical(metadata) == metadata.faceted.faceted_metadata.hierarchical_facets

\* the levels of a facet are non-empty and full_path joins them
WellFormedFacet(facet) ==
    /\ Truthy(facet.level_1) /\ Truthy(facet.level_2) /\ Truthy(facet.level_3)
    /\ facet.full_path = facet.level_1 \o <<" ",">"," ">> \o facet.level_2 \o <<" ",">"," ">> \o facet.level_3

\* two records agree in everything but updated_at
SameButUpdatedAt(a, b) ==
    /\ DOMAIN a = DOMAIN b
    /\ \A key \in DOMAIN a \ {"updated_at"} : a[key] = b[key]

\* C1: the approve step leaves the record approved only if every entry of
\* the validation map stored in the approved record is valid, pending
\* edits included
C1_ApproveOnlyWhenAllValid ==
    [][Approve => AllValid(current_metadata')]_vars

\* C2: after Save Changes no record is approved while its recomputed
\* validation map holds an invalid entry
C2_SaveNeverLeavesApprovedInvalid ==
    [][SaveChanges =>
         ~(current_metadata'.status = "approved" /\ ~AllValid(current_metadata'))]_vars

\* C3: after the edits are applied the confidence scores of the record are
\* those score_metadata gives for the values the record now holds
C3_ScoresFollowEdits ==
    [][(SaveChanges \/ Approve) =>
         current_metadata'.confidence_scores =
             score_metadata(current_metadata', generation.image_attributes,
                            app_models.vocabulary_manager, generation.product_info)]_vars

\* C4: applying the same edit set a second time changes nothing but
\* updated_at
C4_ApplyEditsIdempotent ==
    [][SaveChanges =>
         SameButUpdatedAt(update_metadata_from_ui(current_metadata', app_models, widget_state),
                          current_metadata')]_vars

\* an edited record has been saved with a bullet left and a facet changed
C4_Witness ==
    /\ HasRecord
    /\ "updated_at" \in DOMAIN current_metadata
    /\ edits > 0
    /\ current_metadata.descriptive.bullet_points = widget_state.bullet_points
    /\ current_metadata.descriptive.bullet_points # <<>>
    /\ current_metadata.faceted.faceted_metadata.flat_facets.color = widget_state.edit_color
    /\ ~WellFormedFacet(Hierarchical(current_metadata).facet_1_item_type)

\* C5: both hierarchical facets of a record, generated or edited, have
\* three non-empty levels and the full_path that joins them
C5_FacetsStayWellFormed ==
    HasRecord =>
        /\ WellFormedFacet(Hierarchical(current_metadata).facet_1_item_type)
        /\ WellFormedFacet(Hierarchical(current_metadata).facet_2_style_usage)

\* ------------------------------------------------------------------------
\* Properties of generate_faceted_metadata
\* ------------------------------------------------------------------------

\* C6: both hierarchical facets generate_faceted_metadata returns have
\* three non-empty levels and a full_path that joins them with " > "
C6_GeneratedFacetsWellFormed ==
    DOMAIN generated # {} =>
        /\ WellFormedFacet(generated.faceted_metadata.hierarchical_facets.facet_1_item_type)
        /\ WellFormedFacet(generated.faceted_metadata.hierarchical_facets.facet_2_style_usage)

\* an item type without categories was resolved to the Unknown category
C6_Witness ==
    /\ DOMAIN generated # {}
    /\ generated.faceted_metadata.hierarchical_facets.facet_1_item_type.level_2 = <<"U","n","k","n","o","w","n">>
    /\ generated.faceted_metadata.hierarchical_facets.facet_1_item_type.hierarchy_tree = <<>>

\* what the two sources of a flat facet supply for it
FirstSource(field) ==
    IF field \in {"size", "brand"} THEN Get(bundle.product_info, field, <<>>)
    ELSE FirstName(bundle.image_attributes, field, <<>>, <<>>)

SecondSource(field) == Get(bundle.csv_data, CsvKey(field), <<>>)

Resolved == DOMAIN generated # {}

\* the row's Category of a bundle, empty when there is no row
RowCategory(given) == Get(given.csv_data, "Category", <<>>)

\* the names of the image category candidates of a bundle
CandidateNames(given) ==
    LET category_matches == Get(given.image_attributes, "category", <<>>)
    IN  [i \in 1..Len(category_matches) |-> Get(category_matches[i], "name", <<>>)]

\* a candidate name holds one of the footwear keywords, letter case ignored
NamesFootwear(name) ==
    \E word \in {<<"s","h","o","e">>, <<"s","n","e","a","k","e","r">>, <<"b","o","o","t">>, <<"s","a","n","d","a","l">>, <<"f","o","o","t","w","e","a","r">>} :
        str_in(word, str_lower(name))

\* C17: with a non-empty row Category the item type is Footwear when the
\* Category holds "Footwear" or "Shoe" as written and Apparel otherwise,
\* and every call with the same Category resolves the same item type
\* whatever its image candidates; without a row Category it is Footwear
\* exactly when some image category candidate holds a footwear keyword
C17_ItemTypeFromRowThenImage ==
    Resolved =>
        IF Truthy(RowCategory(bundle))
        THEN /\ generated.item_type =
                    IF str_in(<<"F","o","o","t","w","e","a","r">>, RowCategory(bundle))
                       \/ str_in(<<"S","h","o","e">>, RowCategory(bundle))
                    THEN <<"F","o","o","t","w","e","a","r">> ELSE <<"A","p","p","a","r","e","l">>
             /\ \A call \in Resolutions :
                    RowCategory(call.arguments) = RowCategory(bundle)
                        => call.returns.item_type = generated.item_type
        ELSE generated.item_type =
                 IF \E i \in DOMAIN CandidateNames(bundle) :
                        NamesFootwear(CandidateNames(bundle)[i])
                 THEN <<"F","o","o","t","w","e","a","r">> ELSE <<"A","p","p","a","r","e","l">>

\* a row Category in lower case resolved Apparel although an image
\* candidate names footwear
C17_Witness ==
    /\ Resolved
    /\ RowCategory(bundle) = <<"f","o","o","t","w","e","a","r">>
    /\ \E i \in DOMAIN CandidateNames(bundle) : NamesFootwear(CandidateNames(bundle)[i])
    /\ generated.item_type = <<"A","p","p","a","r","e","l">>

\* an image candidate in capitals after a candidate that names no footwear
\* resolved Footwear
C17_WitnessImage ==
    /\ Resolved
    /\ ~Truthy(RowCategory(bundle))
    /\ Len(CandidateNames(bundle)) = 2
    /\ ~NamesFootwear(CandidateNames(bundle)[1])
    /\ generated.item_type = <<"F","o","o","t","w","e","a","r">>

\* the substring rule of the gender resolution
GenderRule(text) ==
    IF str_in(<<"G","i","r","l">>, text) \/ str_in(<<"W","o","m","e","n">>, text) \/ str_in(<<"F","e","m","a","l","e">>, text) THEN <<"W","o","m","e","n">>
    ELSE IF str_in(<<"B","o","y">>, text) \/ str_in(<<"M","e","n">>, text) \/ str_in(<<"M","a","l","e">>, text) THEN <<"M","e","n">>
    ELSE <<"U","n","i","s","e","x">>

\* the rule applied to the image candidates in their order: the first
\* candidate that holds a listed substring decides
RECURSIVE GenderRuleOfNames(_)
GenderRuleOfNames(names) ==
    IF names = <<>> THEN <<"U","n","i","s","e","x">>
    ELSE IF GenderRule(Head(names)) # <<"U","n","i","s","e","x">> THEN GenderRule(Head(names))
    ELSE GenderRuleOfNames(Tail(names))

RowGender(given) == Get(given.csv_data, "Gender", <<>>)

ManualGender(given) == Get(given.product_info, "gender", <<>>)

\* C18: the gender comes from the first non-empty source among the row's
\* Gender, the manual gender and the image category candidates, and the
\* same substring rule (Girl, Women, Female give Women; else Boy, Men, Male
\* give Men; else Unisex) is applied to whichever source is used
C18_GenderFromFirstSource ==
    Resolved =>
        generated.gender =
            IF Truthy(RowGender(bundle)) THEN GenderRule(RowGender(bundle))
            ELSE IF Truthy(ManualGender(bundle)) THEN GenderRule(ManualGender(bundle))
            ELSE GenderRuleOfNames(CandidateNames(bundle))

\* C18, its first particular case: without a row Gender a manual gender of
\* "Female" resolves Women and one of "Male" resolves Men
C18_ManualFemaleIsWomen ==
    Resolved /\ ~Truthy(RowGender(bundle)) =>
        /\ ManualGender(bundle) = <<"F","e","m","a","l","e">> => generated.gender = <<"W","o","m","e","n">>
        /\ ManualGender(bundle) = <<"M","a","l","e">> => generated.gender = <<"M","e","n">>

\* what the row supplies for a flat facet of the manual form
RowValue(field) == Get(bundle.csv_data, CsvKey(field), <<>>)

ManualValue(field) == Get(bundle.product_info, field, <<>>)

\* C19: for each of brand, gender and size, when the manual form and the
\* row both carry a value, the resolved value comes from the manual one
C19_ManualTakesPrecedence ==
    Resolved =>
        /\ \A field \in {"brand", "size"} :
               Truthy(ManualValue(field)) /\ Truthy(RowValue(field))
                   => generated.faceted_metadata.flat_facets[field] = ManualValue(field)
        /\ Truthy(ManualGender(bundle)) /\ Truthy(RowGender(bundle))
               => generated.gender = GenderRule(ManualGender(bundle))

\* C19 as the code has it: the manual brand and size take precedence over
\* the row's Brand and Size, and the row's Gender takes precedence over
\* the manual gender
C19_ManualBrandAndSizeTakePrecedence ==
    Resolved =>
        /\ \A field \in {"brand", "size"} :
               Truthy(ManualValue(field)) /\ Truthy(RowValue(field))
                   => generated.faceted_metadata.flat_facets[field] = ManualValue(field)
        /\ Truthy(ManualGender(bundle)) /\ Truthy(RowGender(bundle))
               => generated.gender = GenderRule(RowGender(bundle))

\* the manual form and the row disagreed on brand, size and gender: brand
\* and size came from the form, the gender from the row
C19_Witness ==
    /\ Resolved
    /\ \A field \in {"brand", "size"} :
           /\ Truthy(ManualValue(field)) /\ Truthy(RowValue(field))
           /\ ManualValue(field) # RowValue(field)
           /\ generated.faceted_metadata.flat_facets[field] = ManualValue(field)
    /\ Truthy(ManualGender(bundle)) /\ Truthy(RowGender(bundle))
    /\ GenderRule(ManualGender(bundle)) # GenderRule(RowGender(bundle))
    /\ generated.gender = GenderRule(RowGender(bundle))

\* the hierarchy of the resolved item type, and the two facets generated
ResolvedHierarchy == DictGet(generator.item_type_hierarchy, generated.item_type, <<>>)

FacetOne == generated.faceted_metadata.hierarchical_facets.facet_1_item_type

FacetTwo == generated.faceted_metadata.hierarchical_facets.facet_2_style_usage

\* the category and product type matched from the row or from the image,
\* None where nothing matched, before the final defaults
MatchedLevels ==
    IF DOMAIN bundle.csv_data # {} THEN LevelsFromCsv(ResolvedHierarchy, bundle.csv_data)
    ELSE LevelsFromImage(ResolvedHierarchy, generated.item_type, bundle.image_attributes)

\* C23: when no category was matched level_2 is the first category of the
\* item type; when level_2 has product types and none was matched level_3
\* is the first of them; when level_2 is a category without product types
\* level_3 is "Unknown", whatever the category
C23_FacetOneFinalDefaults ==
    Resolved =>
        /\ ~Truthy(MatchedLevels[1]) /\ ResolvedHierarchy # <<>>
               => FacetOne.level_2 = DictKeys(ResolvedHierarchy)[1]
        /\ /\ DictHas(ResolvedHierarchy, FacetOne.level_2)
           /\ DictGet(ResolvedHierarchy, FacetOne.level_2, <<>>) # <<>>
           /\ ~Truthy(MatchedLevels[2])
               => FacetOne.level_3 = DictGet(ResolvedHierarchy, FacetOne.level_2, <<>>)[1]
        /\ /\ DictHas(ResolvedHierarchy, FacetOne.level_2)
           /\ DictGet(ResolvedHierarchy, FacetOne.level_2, <<>>) = <<>>
               => FacetOne.level_3 = <<"U","n","k","n","o","w","n">>

\* the style hierarchy of the generator's vocabulary
StyleHierarchyOf(self) ==
    Get(self.vocabulary, "style_hierarchy", _get_default_style_hierarchy)

\* the level_1 C24 states for a Usage
StatedStyle(style_hierarchy, usage) ==
    LET keys == DictKeys(style_hierarchy)
        Near(key) == str_in(str_lower(key), str_lower(usage))
                     \/ str_in(str_lower(usage), str_lower(key))
    IN  IF ~Truthy(usage) THEN <<"C","a","s","u","a","l">>
        ELSE IF DictHas(style_hierarchy, usage) THEN usage
        ELSE IF str_in(<<"C","a","s","u","a","l">>, usage) THEN <<"C","a","s","u","a","l">>
        ELSE IF str_in(<<"F","o","r","m","a","l">>, usage) THEN <<"F","o","r","m","a","l">>
        ELSE IF str_in(<<"S","p","o","r","t">>, usage) \/ str_in(<<"A","t","h","l","e","t","i","c">>, usage) THEN <<"S","p","o","r","t","y">>
        ELSE IF str_in(<<"E","t","h","n","i","c">>, usage) THEN <<"E","t","h","n","i","c">>
        ELSE IF \E i \in DOMAIN keys : Near(keys[i])
        THEN keys[CHOOSE i \in DOMAIN keys : Near(keys[i])
                                              /\ \A j \in 1..(i - 1) : ~Near(keys[j])]
        ELSE <<"C","a","s","u","a","l">>

RowUsage(given) == Get(given.csv_data, "Usage", <<>>)

\* C24: level_1 of facet 2 is decided by the row's Usage and the
\* vocabulary: an exact style_hierarchy key, else the first of Casual,
\* Formal, Sporty ("Sport" or "Athletic"), Ethnic whose name occurs in
\* Usage, else the first key that holds or is held by Usage ignoring case,
\* else Casual; no level of facet 2 changes with the image attributes
C24_StyleFromUsageOnly ==
    Resolved =>
        /\ FacetTwo.level_1 = StatedStyle(StyleHierarchyOf(generator), RowUsage(bundle))
        /\ \A call \in Resolutions :
               call.by = generator /\ RowUsage(call.arguments) = RowUsage(bundle)
                   => call.returns.faceted_metadata.hierarchical_facets.facet_2_style_usage
                          = FacetTwo

\* a Usage that names no style as written resolved the key it holds when
\* case is ignored, whatever the image showed
C24_Witness ==
    /\ Resolved
    /\ RowUsage(bundle) = <<"p","a","r","t","y"," ","w","e","a","r">>
    /\ FacetTwo.level_1 = <<"P","a","r","t","y">>
    /\ Get(bundle.image_attributes, "style", <<>>) # <<>>

\* C25: facet 2 is a path of the vocabulary: level_1 is one of the usages
\* of a vocabulary that lists usages;
\* when style_hierarchy[level_1] is not empty level_2 is its first
\* sub-style and level_3 the first entry of that sub-style; when it is
\* empty or absent the levels are those of the built-in default hierarchy
\* for level_1, or "Unknown" and "Unknown" when the default has none
C25_FacetTwoIsPathOfVocabulary ==
    Resolved =>
        LET branch == DictGet(StyleHierarchyOf(generator), FacetTwo.level_1, <<>>)
            builtin == DictGet(_get_default_style_hierarchy, FacetTwo.level_1, <<>>)
        IN  /\ "usages" \in DOMAIN generator.vocabulary
                   => InList(FacetTwo.level_1, generator.vocabulary.usages)
            /\ branch # <<>> =>
                   /\ FacetTwo.level_2 = branch[1][1]
                   /\ branch[1][2] # <<>> => FacetTwo.level_3 = branch[1][2][1]
            /\ branch = <<>> =>
                   IF builtin # <<>>
                   THEN FacetTwo.level_2 = builtin[1][1] /\ FacetTwo.level_3 = builtin[1][2][1]
                   ELSE FacetTwo.level_2 = <<"U","n","k","n","o","w","n">> /\ FacetTwo.level_3 = <<"U","n","k","n","o","w","n">>

\* the VocabularyManager constructed on the vocabulary file of the generator
VocabularyManagerOf(self) ==
    VocabularyManager_init(CHOOSE file \in VocabularyFiles :
                               FacetedMetadataGenerator_init(file) = self)

\* C28: the levels of facet 1 that generate_faceted_metadata returns pass
\* validate_hierarchy on the same vocabulary file
C28_GeneratedHierarchyIsValid ==
    Resolved =>
        validate_hierarchy(VocabularyManagerOf(generator), FacetOne.level_1,
                           FacetOne.level_2, FacetOne.level_3)[1]

RowOf(given) == given.csv_data

\* C30: with a row, level_2 and level_3 of facet 1 are decided by the
\* resolved item type, the row's SubCategory and ProductType and the
\* vocabulary: calls that agree on these resolve the same levels whatever
\* their image candidates, and a row without SubCategory resolves the
\* first category of the item type
C30_RowDecidesFacetOne ==
    Resolved /\ DOMAIN RowOf(bundle) # {} =>
        /\ \A call \in Resolutions :
               /\ call.by = generator
               /\ DOMAIN RowOf(call.arguments) # {}
               /\ Get(RowOf(call.arguments), "SubCategory", <<>>)
                      = Get(RowOf(bundle), "SubCategory", <<>>)
               /\ Get(RowOf(call.arguments), "ProductType", <<>>)
                      = Get(RowOf(bundle), "ProductType", <<>>)
               /\ call.returns.item_type = generated.item_type
               => LET other == call.returns.faceted_metadata.hierarchical_facets
                                   .facet_1_item_type
                  IN  other.level_2 = FacetOne.level_2 /\ other.level_3 = FacetOne.level_3
        /\ ~Truthy(Get(RowOf(bundle), "SubCategory", <<>>)) /\ ResolvedHierarchy # <<>>
               => FacetOne.level_2 = DictKeys(ResolvedHierarchy)[1]

\* a row without SubCategory resolved the first category although the
\* first image candidate names another category of the item type
C30_Witness ==
    /\ Resolved
    /\ DOMAIN RowOf(bundle) # {}
    /\ ~Truthy(Get(RowOf(bundle), "SubCategory", <<>>))
    /\ CandidateNames(bundle) # <<>>
    /\ \E i \in DOMAIN DictKeys(ResolvedHierarchy) :
           /\ i > 1
           /\ str_lower(DictKeys(ResolvedHierarchy)[i]) = str_lower(CandidateNames(bundle)[1])
    /\ FacetOne.level_2 = DictKeys(ResolvedHierarchy)[1]

\* ------------------------------------------------------------------------
\* Properties of process_csv
\* ------------------------------------------------------------------------

IsError(outcome) == "error" \in DOMAIN outcome

\* C8: the run holds one outcome per row taken, in the order of the rows,
\* the k-th tagged with k and its row, failed or not, and returns one for
\* every row, or for the first limit rows
C8_OneOutcomePerRow ==
    /\ Len(results) = idx
    /\ \A k \in DOMAIN results :
          results[k].csv_row_index = k /\ results[k].csv_data = csv_rows[k]
    /\ returned =>
          Len(results) = IF row_limit = <<>> THEN Len(csv_rows)
                         ELSE Min(row_limit[1], Len(csv_rows))

\* a run has returned an error outcome followed by a successful one
C8_Witness ==
    /\ returned
    /\ Len(results) = 2
    /\ IsError(results[1])
    /\ ~IsError(results[2])

\* a row lacks Gender, or Brand, or both Image and ImageURL
MissingRequired(row) ==
    \/ ~Truthy(Get(row, "Gender", <<>>))
    \/ ~Truthy(Get(row, "Brand", <<>>))
    \/ ~Truthy(Get(row, "Image", <<>>)) /\ ~Truthy(Get(row, "ImageURL", <<>>))

\* C9: a row that lacks a required field has an error outcome and no
\* collaborator was called for it
C9_RequiredFieldsRejected ==
    \A k \in DOMAIN results :
        MissingRequired(csv_rows[k]) => IsError(results[k]) /\ attempts[k].called = {}

\* C10: a row whose image analysis failed has an error outcome that
\* carries the message of the failure
C10_AnalysisFailureIsRowError ==
    \A k \in DOMAIN results :
        "error" \in DOMAIN attempts[k].analysis =>
            IsError(results[k]) /\ results[k].error = attempts[k].analysis.error

\* the row carries a Gender, a Brand and an Image and nothing else
OnlyGenderBrandImage(row) ==
    \A column \in DOMAIN row :
        Truthy(row[column]) <=> column \in {"Gender", "Brand", "Image"}

\* the categories of an item type in the generator's hierarchy that the
\* candidate names, letter case ignored
NamedCategories(item_type, candidate) ==
    LET hierarchy == DictGet(generator.item_type_hierarchy, item_type, <<>>)
        keys == DictKeys(hierarchy)
    IN  {keys[i] : i \in {j \in 1..Len(keys) :
                              str_lower(keys[j]) = str_lower(candidate.name)}}

\* C20: a row that carries only Gender, Brand and Image, whose image
\* analysis ranks first a candidate that names a category of the resolved
\* item type, resolves that category as level_2 of facet 1 and the first
\* colour candidate as the flat colour; the row Women with the image of a
\* red dress resolves Apparel and Women
C20_ImageNamesCategoryOfBareRow ==
    \A k \in DOMAIN results :
        LET attributes == Get(attempts[k].analysis, "attributes", EmptyDict)
            category_matches == Get(attributes, "category", <<>>)
            colours == Get(attributes, "color", <<>>)
            faceted == results[k].faceted
        IN  /\ OnlyGenderBrandImage(csv_rows[k])
            /\ ~IsError(results[k])
            /\ category_matches # <<>> /\ colours # <<>>
            /\ NamedCategories(faceted.item_type, category_matches[1]) # {}
            => /\ faceted.faceted_metadata.hierarchical_facets.facet_1_item_type.level_2
                      \in NamedCategories(faceted.item_type, category_matches[1])
               /\ faceted.faceted_metadata.flat_facets.color = colours[1].name
               /\ csv_rows[k].Gender = <<"W","o","m","e","n">> /\ category_matches[1].name = <<"d","r","e","s","s">>
                      => faceted.item_type = <<"A","p","p","a","r","e","l">> /\ faceted.gender = <<"W","o","m","e","n">>

\* ------------------------------------------------------------------------
\* Properties of the VocabularyManager
\* ------------------------------------------------------------------------

\* the last call on the VocabularyManager was a call of the operation
Asked(operation) == DOMAIN last_call # {} /\ last_call.operation = operation

\* the list the last call of validate resolved its field to
AskedList == _get_vocabulary_list(vocabulary_store, last_call.field, last_call.context)

\* the value of the last call of validate, stripped
AskedValue == str_strip(last_call.value)

\* whitespace collapsed, then title case
Normalized(v) == str_title(str_join(str_split(v)))

\* the first entry of the list that equals v when case is ignored
FirstIgnoringCase(list, v) ==
    list[CHOOSE i \in 1..Len(list) :
            /\ str_lower(list[i]) = str_lower(v)
            /\ \A j \in 1..(i - 1) : str_lower(list[j]) # str_lower(v)]

\* C11: constructing the vocabulary store never fails, and when the file is
\* missing or malformed the store holds the built-in default vocabulary
C11_ConstructionNeverFails ==
    DOMAIN last_call # {} =>
        /\ Constructed
        /\ ("file" \in DOMAIN last_call
                /\ (~last_call.file.exists \/ "document" \notin DOMAIN last_call.file))
            => vocabulary_store.vocabulary = _get_default_vocabulary

\* C12 as stated: validate of any case or whitespace variant of a term v of
\* the field's list returns (true, v in title case, null)
C12_ListedTermReturnsTitleCase ==
    (Asked("validate") /\ last_call.term # None) =>
        last_call.returns = <<TRUE, str_title(last_call.term), None>>

\* C12 amended: validate of any case or whitespace variant of a term v of
\* the field's list returns true, no suggestions, and the term as the list
\* spells it (its first entry equal to v when case is ignored)
C12_ListedTermReturnsListSpelling ==
    (Asked("validate") /\ last_call.term # None) =>
        last_call.returns = <<TRUE, FirstIgnoringCase(AskedList, last_call.term), None>>

\* the upper-case variant of the lower-case list term "navy blue" was asked
C12_Witness ==
    /\ Asked("validate")
    /\ last_call.term = <<"n","a","v","y"," ","b","l","u","e">>
    /\ last_call.value = <<"N","A","V","Y"," ","B","L","U","E">>
    /\ last_call.returns[2] = <<"n","a","v","y"," ","b","l","u","e">>

\* C13: a non-empty value without a case-insensitive match in a non-empty
\* list returns false, the normalized input, and suggestions that are null
\* or one to three members of that list; an empty or whitespace-only value
\* returns (false, null, null)
C13_UnlistedValueReturnsSuggestions ==
    Asked("validate") =>
        /\ AskedValue = <<>> => last_call.returns = <<FALSE, None, None>>
        /\ ( /\ AskedValue # <<>>
             /\ AskedList # <<>>
             /\ \A i \in 1..Len(AskedList) :
                   str_lower(AskedList[i]) # str_lower(Normalized(AskedValue)) )
            => /\ last_call.returns[1] = FALSE
               /\ last_call.returns[2] = Normalized(AskedValue)
               /\ \/ last_call.returns[3] = None
                  \/ /\ Len(last_call.returns[3]) \in 1..3
                     /\ \A k \in 1..Len(last_call.returns[3]) :
                           InList(last_call.returns[3][k], AskedList)

\* a value close to more than three entries of the list got three suggestions
C13_Witness ==
    /\ Asked("validate")
    /\ last_call.field = "pattern"
    /\ last_call.value = <<"c","h","e","c","k","e","d">>
    /\ last_call.returns[1] = FALSE
    /\ last_call.returns[3] # None
    /\ Len(last_call.returns[3]) = 3

\* C14: for a field that resolves to no vocabulary list, validate returns
\* (true, normalized value, null) for every value that is non-empty once
\* stripped
C14_FieldWithoutListIsValid ==
    (Asked("validate") /\ AskedList = <<>> /\ AskedValue # <<>>) =>
        last_call.returns = <<TRUE, Normalized(last_call.value), None>>

\* a category was asked about without an item type in the context
C14_Witness ==
    /\ Asked("validate")
    /\ last_call.field = "category"
    /\ last_call.context = [category |-> <<"T","o","p","w","e","a","r">>]
    /\ last_call.value = <<"n","e","o","n"," "," ","g","r","e","e","n">>
    /\ last_call.returns = <<TRUE, <<"N","e","o","n"," ","G","r","e","e","n">>, None>>

\* the entries of a data-keyed section under a key, none when it is absent
Section(self, name, key) == DictGet(Get(self.vocabulary, name, <<>>), key, <<>>)

\* C15: validate_hierarchy returns valid exactly when the item type is in
\* the item_type list, the category is in categories[item_type] and the
\* product type is empty or in product_types[item_type][category];
\* otherwise it returns the message of the first failing check
C15_HierarchyChecksInOrder ==
    Asked("validate_hierarchy") =>
        LET item_type == last_call.item_type
            category == last_call.category
            product_type == last_call.product_type
            known_type == InList(item_type, Get(vocabulary_store.vocabulary, "item_type", <<>>))
            known_category ==
                InList(category, Section(vocabulary_store, "categories", item_type))
            known_product ==
                \/ product_type = <<>>
                \/ InList(product_type,
                          DictGet(Section(vocabulary_store, "product_types", item_type),
                                  category, <<>>))
        IN  /\ last_call.returns[1] = (known_type /\ known_category /\ known_product)
            /\ ~known_type => last_call.returns[2] = <<"I","n","v","a","l","i","d"," ","i","t","e","m","_","t","y","p","e",":"," ">> \o item_type
            /\ (known_type /\ ~known_category) =>
                   last_call.returns[2] = <<"C","a","t","e","g","o","r","y"," ","'">> \o category
                       \o <<"'"," ","n","o","t"," ","v","a","l","i","d"," ","f","o","r"," ","i","t","e","m","_","t","y","p","e"," ","'">> \o item_type \o <<"'">>
            /\ (known_type /\ known_category /\ ~known_product) =>
                   last_call.returns[2] = <<"P","r","o","d","u","c","t"," ","t","y","p","e"," ","'">> \o product_type
                       \o <<"'"," ","n","o","t"," ","v","a","l","i","d"," ","f","o","r"," ","c","a","t","e","g","o","r","y"," ","'">> \o category \o <<"'">>

\* a category outside the item type was refused though no product type was given
C15_Witness ==
    /\ Asked("validate_hierarchy")
    /\ last_call.item_type = <<"A","p","p","a","r","e","l">>
    /\ last_call.category = <<"S","h","o","e","s">>
    /\ last_call.product_type = <<>>
    /\ last_call.returns[1] = FALSE

\* the list has no entry twice
NoDuplicates(list) == \A i, j \in 1..Len(list) : list[i] = list[j] => i = j

\* a is the beginning of b
IsPrefix(a, b) == Len(a) <= Len(b) /\ SubSeq(b, 1, Len(a)) = a

\* C16: after any sequence of add_custom_term calls every field's custom
\* terms hold no duplicates and only normalized values, a call removes or
\* moves no entry, repeating it with the value in any casing or spacing
\* changes nothing, and the base vocabulary stays as it was
C16_CustomTermsAppendOnly ==
    [][AddCustomTerm =>
        /\ vocabulary_store'.vocabulary = vocabulary_store.vocabulary
        /\ \A field \in {"color", "brand"} :
              /\ NoDuplicates(get_custom_terms(vocabulary_store', field))
              /\ \A i \in 1..Len(get_custom_terms(vocabulary_store', field)) :
                    get_custom_terms(vocabulary_store', field)[i]
                        = Normalized(get_custom_terms(vocabulary_store', field)[i])
              /\ IsPrefix(get_custom_terms(vocabulary_store, field),
                          get_custom_terms(vocabulary_store', field))
        /\ \A again \in Variants(last_call'.value) :
              add_custom_term(vocabulary_store', last_call'.field, again) = vocabulary_store'
      ]_vars

\* the same term was added twice in two spellings and is held once
C16_Witness ==
    /\ adds = 2
    /\ Asked("add_custom_term")
    /\ last_call.value = <<"n","e","o","n"," "," ","g","r","e","e","n">>
    /\ get_custom_terms(vocabulary_store, last_call.field) = <<<<"N","e","o","n"," ","G","r","e","e","n">>>>

\* ------------------------------------------------------------------------
\* Properties of the ConfidenceScorer
\* ------------------------------------------------------------------------

\* the last call on the ConfidenceScorer was a call of the operation
ScoredBy(operation) == DOMAIN scored # {} /\ scored.operation = operation

\* C21: for color and material with source image and an image confidence
\* supplied, calculate_confidence returns that image confidence, whatever
\* the vocabulary match and also when the confidence is 0
C21_ImageConfidenceReturnedAsIs ==
    /\ ScoredBy("calculate_confidence")
    /\ scored.field \in {"color", "material"}
    /\ scored.source = "image"
    /\ scored.image_confidence # <<>>
    => scored.returns = scored.image_confidence[1]

\* C22: requires_review returns true exactly when overall, 0.5 if absent,
\* is strictly below the threshold or one of item_type, gender, category,
\* product_type is present with a value strictly below the threshold
C22_ReviewExactlyWhenBelowThreshold ==
    ScoredBy("requires_review") =>
        LET overall == IF "overall" \in DOMAIN scored.scores THEN scored.scores.overall
                       ELSE <<50, 1>>
        IN  scored.returns <=>
                \/ overall[1] < scored.threshold * overall[2]
                \/ \E field \in {"item_type", "gender", "category", "product_type"} :
                       field \in DOMAIN scored.scores
                       /\ scored.scores[field] < scored.threshold

\* no review although overall and a critical field equal the threshold
\* and the color is far below it
C22_Witness ==
    /\ ScoredBy("requires_review")
    /\ "overall" \in DOMAIN scored.scores /\ scored.scores.overall = <<scored.threshold, 1>>
    /\ "item_type" \in DOMAIN scored.scores /\ scored.scores.item_type = scored.threshold
    /\ "color" \in DOMAIN scored.scores /\ scored.scores.color < scored.threshold
    /\ ~scored.returns

\* the confidence C26 states for a field other than color and material, in
\* thousandths before the rounding
StatedConfidence(field, source, image_confidence, vocabulary_match) ==
    LET base == CASE source = "manual" -> 1000 [] source = "csv" -> 900
                  [] source = "image" -> 700 [] source = "generated" -> 600
                  [] OTHER -> 500
        averaged == IF source = "image" /\ image_confidence # <<>>
                    THEN (base + 10 * image_confidence[1]) \div 2 ELSE base
        matched == IF vocabulary_match = <<TRUE>> THEN Min(1000, averaged + 100)
                   ELSE IF vocabulary_match = <<FALSE>> THEN Max(0, averaged - 200)
                   ELSE averaged
    IN  IF field \in {"gender", "item_type", "size"} THEN Min(1000, matched + 100)
        ELSE IF field \in {"title", "description"} THEN Max(0, matched - 100)
        ELSE matched

ScoredValue(metadata, field) ==
    LET faceted == Get(metadata, "faceted", EmptyDict)
        inner == Get(faceted, "faceted_metadata", EmptyDict)
        facet1 == Get(Get(inner, "hierarchical_facets", EmptyDict),
                      "facet_1_item_type", EmptyDict)
        flat == Get(inner, "flat_facets", EmptyDict)
    IN  CASE field = "item_type" -> Get(faceted, "item_type", <<>>)
          [] field = "gender" -> Get(faceted, "gender", <<>>)
          [] field = "category" -> Get(facet1, "level_2", <<>>)
          [] field = "product_type" -> Get(facet1, "level_3", <<>>)
          [] OTHER -> Get(flat, field, <<>>)

RECURSIVE SumOf(_, _)
SumOf(scores, fields) ==
    IF fields = {} THEN 0
    ELSE LET f == CHOOSE f \in fields : TRUE
         IN  scores[f] + SumOf(scores, fields \ {f})

C27_WitnessNoField ==
    /\ ScoredBy("score_metadata")
    /\ DOMAIN scored.returns = {"overall"}

\* the list has an entry equal to the term when case is ignored
ListedIgnoringCase(list, term) ==
    \E i \in 1..Len(list) : str_lower(list[i]) = str_lower(term)

\* the manager as its constructor left it, before any custom term
WithoutCustomTerms(self) == [self EXCEPT !.custom_terms = <<>>]

\* C29: add_custom_term never changes what validate returns: after any
\* number of additions validate answers for the value just added, and for
\* every custom term kept, as the manager without custom terms does, so a
\* custom term that get_valid_options offers for its field is still reported
\* invalid by validate unless the base vocabulary lists it
C29_CustomTermsNeverReachValidate ==
    Asked("add_custom_term") =>
        /\ validate(vocabulary_store, last_call.field, last_call.value, EmptyDict)
               = validate(WithoutCustomTerms(vocabulary_store), last_call.field,
                          last_call.value, EmptyDict)
        /\ \A field \in {"color", "brand"} :
               \A i \in 1..Len(get_custom_terms(vocabulary_store, field)) :
                   LET term == get_custom_terms(vocabulary_store, field)[i]
                       answer == validate(vocabulary_store, field, term, EmptyDict)
                   IN  /\ InList(term, get_valid_options(vocabulary_store, field, EmptyDict))
                       /\ answer = validate(WithoutCustomTerms(vocabulary_store), field,
                                            term, EmptyDict)
                       /\ answer[1]
                              <=> /\ Truthy(term)
                                  /\ ListedIgnoringCase(
                                         _get_vocabulary_list(vocabulary_store, field,
                                                              EmptyDict), term)

\* a custom color that no vocabulary lists is offered by get_valid_options
\* and reported invalid by validate
C29_Witness ==
    /\ Asked("add_custom_term")
    /\ last_call.field = "color"
    /\ InList(<<"N","e","o","n">>, get_custom_terms(vocabulary_store, "color"))
    /\ InList(<<"N","e","o","n">>, get_valid_options(vocabulary_store, "color", EmptyDict))
    /\ ~validate(vocabulary_store, "color", <<"n","e","o","n">>, EmptyDict)[1]

=============================================================================
